---- MODULE Spec2Model ----
(***************************************************************************)
(* Admin back-end handlers (orders, notifications, shop status) over a     *)
(* document database, modelled as state machines.                          *)
(*                                                                         *)
(* The database collections are the shared state.  Every handler is an     *)
(* asyncio coroutine: between two awaited database calls any other         *)
(* handler may run, so a handler is a sequence of steps, one per awaited   *)
(* database call, and the steps of different invocations interleave.       *)
(*                                                                         *)
(* The specifications share the variables; each drives some handlers and   *)
(* leaves the rest of the state untouched:                                 *)
(*   SpecList      send_orders / build_orders_query   (orders.py)          *)
(*   SpecOrders    update_order_status / assign_delivery_partner           *)
(*   SpecDownload  get_orders_for_download                                 *)
(*   SpecNotif     sending and deleting notifications (notifications.py)   *)
(*   SpecNotifRead listing and statistics beside sends and deletes         *)
(*   SpecShop      get_shop_status / update_shop_status (shop_status.py)   *)
(*   SpecFail      handlers of the three services while the database or    *)
(*                 the caller's connection fails                           *)
(*   SpecRace      the order handlers while other actors change users      *)
(*                 and orders                                              *)
(***************************************************************************)
EXTENDS Integers, Sequences, FiniteSets, TLC

VARIABLES
    orders,     \* collection "orders": a set of documents
    users,      \* collection "users": a set of documents
    notifs,     \* collection "notifications": a set of documents
    shop,       \* collection "shop_status": a set of documents
    nextId,     \* the next storage-internal _id the store hands out
    now,        \* the clock read by datetime.utcnow()
    task,       \* the handler invocations in flight, per task slot
    calls,      \* number of handler invocations started so far
    oplog,      \* per order id: history entries pushed by matched writes
    wsOpen,     \* websocket.client_state is CONNECTED
    flt,        \* send_orders: the filters the admin client has set
    req,        \* send_orders: the page value of the last request
    resp,       \* send_orders: the message last sent on the socket
    scan,       \* send_orders: the pages fetched so far by a page-by-page client
    bulk,       \* download: how many stored orders the download query matches
    dbUp        \* the database answers (FALSE: every database call raises)

vars == <<orders, users, notifs, shop, nextId, now, task, calls, oplog,
          wsOpen, flt, req, resp, scan, bulk, dbUp>>

----------------------------------------------------------------------------
(* Bounds of the model *)

MaxPage == 3
MaxLimit == 2
MaxCalls == 2
MaxTime == 2
MaxFilterFields == 2

(* Program constants *)

DefaultPage == 1
DefaultLimit == 10

----------------------------------------------------------------------------
(* Python values *)

None == "None"
Absent == [k |-> "absent"]
Num(n) == [k |-> "num", v |-> n]
Str(s) == [k |-> "str", s |-> s]
Bool(b) == [k |-> "bool", v |-> b]
\* a string of 24 hex digits, the text form of an ObjectId
Hex(s) == [k |-> "hex", s |-> s]
Chars(s) == [k |-> "chars", s |-> s]

\* dict.get(key, default) on a key that is absent
Get(val, default) == IF val.k = "absent" THEN default ELSE val.v

\* Python truthiness of a filter value: a missing key, None, "", 0 and []
\* are falsy; any non-empty string (also "0") is truthy.
Truthy(val) ==
    CASE val.k \in {"absent", "none"} -> FALSE
      [] val.k = "num" -> val.v # 0
      [] val.k = "bool" -> val.v
      [] val.k = "str" -> val.s # ""
      [] val.k = "chars" -> val.s # <<>>
      [] OTHER -> TRUE

Range(s) == {s[i] : i \in 1..Len(s)}

NoDup(s) == \A i, j \in 1..Len(s) : i # j => s[i] # s[j]

Min(a, b) == IF a <= b THEN a ELSE b

\* s[skip+1 .. skip+limit]; limit = 0 is the store's "no limit"
Slice(s, skip, limit) ==
    IF limit = 0 THEN SubSeq(s, skip + 1, Len(s))
    ELSE SubSeq(s, skip + 1, Min(Len(s), skip + limit))

----------------------------------------------------------------------------
(* Strings that the code takes apart are sequences of characters *)

Lower(c) ==
    CASE c = "A" -> "a"
      [] c = "B" -> "b"
      [] OTHER -> c

LowerStr(s) == [i \in 1..Len(s) |-> Lower(s[i])]

\* str.strip()
RECURSIVE LStrip(_)
LStrip(s) == IF s # <<>> /\ Head(s) = " " THEN LStrip(Tail(s)) ELSE s

RECURSIVE RStrip(_)
RStrip(s) ==
    IF s # <<>> /\ s[Len(s)] = " " THEN RStrip(SubSeq(s, 1, Len(s) - 1)) ELSE s

Strip(s) == RStrip(LStrip(s))

\* {"$regex": pat, "$options": "i"} for a pattern of literal characters:
\* pat occurs in s, case-insensitively
RegexMatchI(pat, s) ==
    \E i \in 0..(Len(s) - Len(pat)) :
        LowerStr(SubSeq(s, i + 1, i + Len(pat))) = LowerStr(pat)

----------------------------------------------------------------------------
(* ISO date strings.  A well-formed string is its wall-clock reading and   *)
(* its zone suffix: "", "Z", or a UTC offset of one hour (one time unit) *)

IsoStr(wall, zone) == [k |-> "iso", wall |-> wall, zone |-> zone]

\* datetime.fromisoformat(s.replace('Z', '+00:00')): a naive datetime for a
\* string without suffix, an aware one (with its UTC offset) otherwise
FromIsoFormat(val) ==
    [wall |-> val.wall,
     aware |-> val.zone # "",
     utcoffset |-> IF val.zone = "+01:00" THEN 1 ELSE 0]

IsAware(dt) == dt.aware

\* The instant a datetime denotes; the store and utcnow() read a naive
\* datetime as UTC
Instant(dt) == IF IsAware(dt) THEN dt.wall - dt.utcoffset ELSE dt.wall

----------------------------------------------------------------------------
(* build_orders_query *)

EmptyQuery == <<>>

Cond(f, op, v) == [f |-> f, op |-> op, v |-> v]

\* An exception other than ValueError leaves the inner try blocks and is
\* caught by the outer one, which returns {}: .replace on a non-string
\* date (AttributeError), float() of a list (TypeError), .strip on a
\* non-string search term (AttributeError).
QueryRaises(filters) ==
    \/ filters.from_date.k = "nonstr"
    \/ filters.to_date.k = "nonstr"
    \/ filters.min_amount.k = "list"
    \/ filters.max_amount.k = "list"
    \/ filters.search.k = "nonstr"

StatusConds(filters) ==
    IF Truthy(filters.status) /\ filters.status.s # "all"
    THEN <<Cond("order_status", "eq", filters.status.s)>>
    ELSE <<>>

\* a date bound: dropped when absent/empty or when fromisoformat raises
\* ValueError
DateConds(val, op) ==
    IF Truthy(val) /\ val.k = "iso"
    THEN <<Cond("created_at", op, Instant(FromIsoFormat(val)))>>
    ELSE <<>>

\* an amount bound: dropped when falsy (absent, 0, "") or when float()
\* raises ValueError
AmountConds(val, op) ==
    IF Truthy(val) /\ val.k \in {"num", "numstr"}
    THEN <<Cond("total_amount", op, val.v)>>
    ELSE <<>>

SearchTerm(s) ==
    LET t == Strip(s)
    IN IF t # <<>> /\ Head(t) = "#" THEN Tail(t) ELSE t

SearchConds(filters) ==
    IF Truthy(filters.search)
    THEN <<Cond("id", "regex", SearchTerm(filters.search.s))>>
    ELSE <<>>

build_orders_query(filters) ==
    IF QueryRaises(filters) THEN EmptyQuery
    ELSE StatusConds(filters)
         \o DateConds(filters.from_date, "gte")
         \o DateConds(filters.to_date, "lte")
         \o AmountConds(filters.min_amount, "gte")
         \o AmountConds(filters.max_amount, "lte")
         \o SearchConds(filters)

----------------------------------------------------------------------------
(* The document store *)

Holds(doc, c) ==
    CASE c.op = "eq" -> doc[c.f] = c.v
      [] c.op = "gte" -> doc[c.f] >= c.v
      [] c.op = "lte" -> doc[c.f] <= c.v
      [] c.op = "regex" -> RegexMatchI(c.v, doc[c.f])

\* the documents of a collection that a query (a conjunction) selects
Matching(coll, query) ==
    {d \in coll : \A i \in 1..Len(query) : Holds(d, query[i])}

count_documents(coll, query) == Cardinality(Matching(coll, query))

Perms(S) ==
    {p \in [1..Cardinality(S) -> S] : \A d \in S : \E i \in DOMAIN p : p[i] = d}

\* sort=[("created_at", -1)]: any order of the documents with created_at
\* descending.  The store fixes no order among documents whose sort key
\* is equal, and that order may differ from one query to the next.
SortedDesc(S) ==
    {p \in Perms(S) :
        \A i \in 1..(Len(p) - 1) : p[i].created_at >= p[i + 1].created_at}

\* the results find_many(coll, query, sort, skip, limit) can give
find_many_sorted(coll, query, skip, limit) ==
    {Slice(p, skip, limit) : p \in SortedDesc(Matching(coll, query))}

----------------------------------------------------------------------------
(* Documents *)

\* an optional timestamp: <<>> for None, <<t>> for the instant t
NoTime == <<>>
At(t) == <<t>>

OrderDoc(id, created_at, status, amount, user, ok) ==
    [id |-> id, created_at |-> created_at, order_status |-> status,
     total_amount |-> amount, user |-> user, delivery_partner |-> None,
     assigned_at |-> NoTime, updated_at |-> NoTime, status_message |-> <<>>,
     status_change_history |-> <<>>, serializable |-> ok]

UserDoc(oid, id, name, role, active, verified) ==
    [_id |-> oid, id |-> id, name |-> name, role |-> role,
     is_active |-> active, is_verified |-> verified]

\* The users the order fixtures refer to: customers and delivery partners
UserFixtures ==
    {UserDoc("65a1", "u1", "Asha", "customer", TRUE, TRUE),
     UserDoc("65a2", "u2", "Bala", "customer", FALSE, FALSE),
     UserDoc("65a3", "p1", "Chand", "delivery_partner", TRUE, TRUE),
     UserDoc("65a4", "p2", "Dev", "delivery_partner", FALSE, TRUE)}

\* Orders as the order-placing service leaves them.  Two of them were
\* created in the same instant.  None holds a value the serializer
\* rejects.
ListOrder1 == OrderDoc(<<"A", "1">>, 1, "pending", 0, "u1", TRUE)
ListOrder2 == OrderDoc(<<"a", "2">>, 2, "pending", 5, "u1", TRUE)
ListOrder3 == OrderDoc(<<"B", "3">>, 2, "delivered", 10, "u9", TRUE)
ListOrder4 == OrderDoc(<<"B", "4">>, 3, "delivered", 5, "u2", TRUE)

ListDatabases ==
    {{}, {ListOrder1, ListOrder2, ListOrder3},
     {ListOrder1, ListOrder2, ListOrder3, ListOrder4}}

----------------------------------------------------------------------------
(* send_orders *)

\* serialize_document raises on a document it cannot convert
SerializeRaises(order) == ~order.serializable

NameOf(coll, id, default) ==
    IF \E u \in coll : u.id = id
    THEN (CHOOSE u \in coll : u.id = id).name
    ELSE default

\* one order of the response: the denormalised display fields
SerializedOrder(order, users_found, partners_found) ==
    [id |-> order.id,
     total |-> order.total_amount,
     status |-> order.order_status,
     user_name |-> NameOf(users_found, order.user, "Unknown"),
     delivery_partner_name |->
         IF order.delivery_partner # None
         THEN NameOf(partners_found, order.delivery_partner, None)
         ELSE None]

\* the per-order loop: an order whose serialization raises is skipped
RECURSIVE SerializeAll(_, _, _)
SerializeAll(found, users_found, partners_found) ==
    IF found = <<>> THEN <<>>
    ELSE LET rest == SerializeAll(Tail(found), users_found, partners_found)
         IN IF SerializeRaises(Head(found)) THEN rest
            ELSE <<SerializedOrder(Head(found), users_found, partners_found)>>
                 \o rest

\* math.ceil(a / b) for a >= 0, b > 0
CeilDiv(a, b) == IF a % b = 0 THEN a \div b ELSE (a \div b) + 1

\* a plausible slip: integer division instead of math.ceil
PaginationInfo_Floor(page, limit, total_count) ==
    LET total_pages == IF total_count > 0 THEN total_count \div limit ELSE 1
    IN [current_page |-> page,
        total_pages |-> total_pages,
        total_orders |-> total_count,
        has_prev |-> page > 1,
        has_next |-> page < total_pages,
        page_size |-> limit]

PaginationInfo(page, limit, total_count) ==
    LET total_pages == IF total_count > 0 THEN CeilDiv(total_count, limit) ELSE 1
    IN [current_page |-> page,
        total_pages |-> total_pages,
        total_orders |-> total_count,
        has_prev |-> page > 1,
        has_next |-> page < total_pages,
        page_size |-> limit]

NoResp == [type |-> "none"]

ErrorMsg(message) == [type |-> "error", message |-> message]

NoScan == [state |-> "none"]

\* What a client that walks the pages in order has collected: a request
\* for page 1 starts a walk, a request for the next page extends it, the
\* walk is complete once page total_pages has arrived, and any other
\* request abandons it.
ScanAfter(page, limit, answer) ==
    IF answer.type # "orders_data" THEN NoScan
    ELSE LET ids == [i \in 1..Len(answer.orders) |-> answer.orders[i].id]
             total_pages == answer.pagination.total_pages
             acc == IF page = 1 THEN ids ELSE scan.acc \o ids
         IN IF page = 1 \/ (scan.state = "open" /\ scan.next = page)
            THEN [state |-> IF page >= total_pages THEN "complete" ELSE "open",
                  next |-> page + 1,
                  limit |-> limit,
                  acc |-> acc]
            ELSE NoScan

\* The handler, called with the client's filters and the page asked for.
send_orders(page_val) ==
    LET filters == [flt EXCEPT !.page = page_val]
    IN IF ~wsOpen
       THEN \* connection not active: return without an answer
            /\ resp' = NoResp
            /\ scan' = NoScan
       ELSE LET query == build_orders_query(filters)
                page == Get(filters.page, DefaultPage)
                limit == Get(filters.limit, DefaultLimit)
                skip == (page - 1) * limit
                total_count == count_documents(orders, query)
            IN \E found \in find_many_sorted(orders, query, skip, limit) :
                 LET answer ==
                       IF total_count > 0 /\ limit = 0
                       THEN \* ZeroDivisionError, caught by the handler
                            ErrorMsg("Failed to fetch orders")
                       ELSE LET user_ids == {found[i].user : i \in 1..Len(found)}
                                partner_ids ==
                                    {found[i].delivery_partner :
                                        i \in 1..Len(found)} \ {None}
                                users_found ==
                                    {u \in users : u.id \in user_ids}
                                partners_found ==
                                    {u \in users : u.id \in partner_ids}
                            IN [type |-> "orders_data",
                                orders |-> SerializeAll(found, users_found,
                                                        partners_found),
                                pagination |->
                                    PaginationInfo(page, limit, total_count)]
                 IN /\ resp' = answer
                    /\ scan' = ScanAfter(page, limit, answer)

SendOrders ==
    /\ \E page_val \in {Absent} \cup {Num(p) : p \in 1..MaxPage} :
           /\ send_orders(page_val)
           /\ req' = page_val
    /\ UNCHANGED <<orders, users, notifs, shop, nextId, now, task, calls,
                   oplog, wsOpen, flt,
                   bulk, dbUp>>

\* the admin's connection closes
Disconnect ==
    /\ wsOpen
    /\ wsOpen' = FALSE
    /\ UNCHANGED <<orders, users, notifs, shop, nextId, now, task, calls,
                   oplog, flt, req, resp, scan,
                   bulk, dbUp>>

StatusFilters == {Absent, Str("all"), Str("pending")}
FromDateFilters == {Absent, IsoStr(2, ""), [k |-> "badstr"], [k |-> "nonstr"]}
ToDateFilters == {Absent, IsoStr(3, "+01:00"), [k |-> "badstr"]}
MinAmountFilters == {Absent, Num(0), Num(5), [k |-> "badstr"], [k |-> "list"]}
MaxAmountFilters == {Absent, Num(0), [k |-> "numstr", v |-> 5], [k |-> "badstr"]}
SearchFilters == {Absent, Chars(<<" ", "#", "b">>)}
LimitFilters == {Absent} \cup {Num(l) : l \in 0..MaxLimit}

FilterKeys == {"status", "from_date", "to_date", "min_amount", "max_amount", "search"}

\* the filter dicts a client sends: at most MaxFilterFields filters set
FilterInputs ==
    {f \in [status : StatusFilters, from_date : FromDateFilters,
            to_date : ToDateFilters, min_amount : MinAmountFilters,
            max_amount : MaxAmountFilters, search : SearchFilters,
            limit : LimitFilters, page : {Absent}] :
        Cardinality({key \in FilterKeys : f[key].k # "absent"}) <= MaxFilterFields}

NoTasks == <<>>

InitList ==
    /\ orders \in ListDatabases
    /\ users = UserFixtures
    /\ notifs = {}
    /\ shop = {}
    /\ nextId = 0
    /\ now = 0
    /\ task = NoTasks
    /\ calls = 0
    /\ oplog = <<>>
    /\ wsOpen = TRUE
    /\ bulk = 0
    /\ dbUp = TRUE
    /\ flt \in FilterInputs
    /\ req = Absent
    /\ resp = NoResp
    /\ scan = NoScan

NextList == SendOrders \/ Disconnect

SpecList == InitList /\ [][NextList]_vars

----------------------------------------------------------------------------
(* Claims about send_orders *)

\* the orders the client's filters select, as the store evaluates the query
ListMatches == Matching(orders, build_orders_query(flt))

OrderById(id) == CHOOSE o \in orders : o.id = id

\* C1: for a fixed filter and page size >= 1 over unchanging orders, the
\* pages 1..total_pages concatenated are exactly the matching orders, in
\* created_at-descending order, none twice and none missing.
C1_PagesReproduceMatchSet ==
    (scan.state = "complete" /\ scan.limit >= 1) =>
        /\ NoDup(scan.acc)
        /\ Range(scan.acc) = {o.id : o \in ListMatches}
        /\ \A i \in 1..(Len(scan.acc) - 1) :
               OrderById(scan.acc[i]).created_at
                   >= OrderById(scan.acc[i + 1]).created_at

\* C2: total_pages = ceil(N / limit) for N > 0 and 1 for N = 0, has_prev
\* iff page > 1, has_next iff page < total_pages, total_orders = N, for
\* every page >= 1 and limit >= 1; N = 25, page = 1, limit = 10 gives
\* total_pages = 3, has_next, not has_prev.
C2_PaginationMetadata ==
    /\ resp.type = "orders_data" =>
         LET p == resp.pagination
             page == Get(req, 1)
             limit == Get(flt.limit, 10)
             N == Cardinality(ListMatches)
         IN (page >= 1 /\ limit >= 1) =>
              /\ p.total_orders = N
              /\ N = 0 => p.total_pages = 1
              /\ N > 0 => /\ p.total_pages * limit >= N
                          /\ (p.total_pages - 1) * limit < N
              /\ p.has_prev = (page > 1)
              /\ p.has_next = (page < p.total_pages)
    /\ LET e == PaginationInfo(1, 10, 25)
       IN e.total_pages = 3 /\ e.has_next /\ ~e.has_prev

\* a middle page: more than one page of matches, one before and one after
C2_Witness ==
    /\ resp.type = "orders_data"
    /\ Get(req, 1) = 2
    /\ Get(flt.limit, 10) = 1
    /\ Cardinality(ListMatches) = 3
    /\ resp.pagination.has_next
    /\ resp.pagination.has_prev

----------------------------------------------------------------------------
(* Handler invocations.  A task slot holds one invocation: the handler,   *)
(* where it stands, its message payload, its local variables, the         *)
(* messages it has sent on its socket, the database writes it issued and  *)
(* the number of its send attempts that raised.  pc "done" is a normal    *)
(* return, pc "raised" an exception that left the handler.                *)

Tasks == {"t1", "t2"}

Idle == [op |-> "idle", pc |-> "idle", data |-> <<>>, loc |-> <<>>,
         out |-> <<>>, writes |-> <<>>, failed |-> 0]

Free(t) == task[t].pc \in {"idle", "done", "raised"}

Begin(op, pc, data, loc) ==
    [op |-> op, pc |-> pc, data |-> data, loc |-> loc, out |-> <<>>,
     writes |-> <<>>, failed |-> 0]

\* a message built by an f-string around str(e): the literal text and the
\* exception's own text interpolated after it
FailureMsg(message, e) == [type |-> "error", message |-> message, detail |-> e]

\* websocket.send_json(msg) in a handler's except block, followed by the
\* return: on a closed connection the send raises and, nothing being
\* around it, the exception leaves the handler
AnswerFromExcept(tk, msg) ==
    IF wsOpen THEN [tk EXCEPT !.pc = "done", !.out = @ \o <<msg>>]
    ELSE [tk EXCEPT !.pc = "raised", !.failed = @ + 1]

\* websocket.send_json(msg) inside the handler's try, followed by the
\* return: on a closed connection the send raises, the handler's
\* "except Exception" block takes over and sends its own error message,
\* and that second send raises out of the handler
Finish(tk, msg) ==
    IF wsOpen THEN [tk EXCEPT !.pc = "done", !.out = @ \o <<msg>>]
    ELSE AnswerFromExcept([tk EXCEPT !.failed = @ + 1], msg)

\* data.get(key) of a message payload: None when the key is absent
Field(val) == IF val.k = "absent" THEN None ELSE val.s

\* a or b
Or(a, b) == IF a # None /\ a # "" THEN a ELSE b

Falsy(x) == x = None \/ x = ""

Tick ==
    /\ now < MaxTime
    /\ now' = now + 1
    /\ UNCHANGED <<orders, users, notifs, shop, nextId, task, calls, oplog,
                   wsOpen, flt, req, resp, scan,
                   bulk, dbUp>>

----------------------------------------------------------------------------
(* update_one on "orders" with a $set and a $push to status_change_history *)

HistoryEntry(status, changed_at, changed_by, partner_id, partner_name, message) ==
    [status |-> status, changed_at |-> changed_at, changed_by |-> changed_by,
     partner_id |-> partner_id, partner_name |-> partner_name,
     message |-> message]

\* {"$set": set, "$push": {"status_change_history": push}} applied to a
\* document, in one atomic step of the store
ApplyUpdate(doc, upd) ==
    [f \in DOMAIN doc |->
        IF f \in DOMAIN upd.set THEN upd.set[f]
        ELSE IF f = "status_change_history" THEN Append(doc[f], upd.push)
        ELSE doc[f]]

\* update_one(coll, {"id": id}, upd): the collection afterwards
UpdatedById(coll, id, upd) ==
    IF \E d \in coll : d.id = id
    THEN LET d == CHOOSE d \in coll : d.id = id
         IN (coll \ {d}) \cup {ApplyUpdate(d, upd)}
    ELSE coll

\* what update_one returns: whether a document matched
UpdateMatched(coll, id) == \E d \in coll : d.id = id

WriteRec(coll, key, id, upd) ==
    [coll |-> coll, key |-> key, id |-> id, upd |-> upd]

\* the entries pushed onto an order's history by writes that matched it
Logged(id) == IF id \in DOMAIN oplog THEN oplog[id] ELSE <<>>

LogPush(id, entry) ==
    [i \in DOMAIN oplog \cup {id} |->
        IF i = id THEN Append(Logged(id), entry) ELSE oplog[i]]

----------------------------------------------------------------------------
(* update_order_status *)

StatusMessage == <<"Order is out for delivery">>

\* a plausible slip: the new entry written with $set, as the whole history
StatusUpdateDoc_SetHistory(new_status, current_time) ==
    [set |-> [order_status |-> new_status,
              updated_at |-> At(current_time),
              status_message |-> StatusMessage,
              status_change_history |->
                  <<HistoryEntry(new_status, current_time, None, None, None,
                                 StatusMessage)>>],
     push |-> HistoryEntry(new_status, current_time, None, None, None,
                           StatusMessage)]

StatusUpdateDoc(new_status, current_time) ==
    [set |-> [order_status |-> new_status,
              updated_at |-> At(current_time),
              status_message |-> StatusMessage],
     push |-> HistoryEntry(new_status, current_time, None, None, None,
                           StatusMessage)]

\* a plausible slip: only the order ID is required
UpdateOrderStatusStart_StatusOptional(t, data) ==
    LET order_id == Or(Field(data.order_id), Field(data.orderId))
        new_status == Field(data.status)
    IN /\ Free(t)
       /\ calls < MaxCalls
       /\ calls' = calls + 1
       /\ task' = [task EXCEPT ![t] =
            IF Falsy(order_id)
            THEN Finish(Begin("update_order_status", "start", data, <<>>),
                        ErrorMsg("Order ID and status are required"))
            ELSE Begin("update_order_status", "update", data,
                       [order_id |-> order_id, new_status |-> new_status,
                        current_time |-> now])]
       /\ UNCHANGED <<orders, users, notifs, shop, nextId, now, oplog,
                      wsOpen, flt, req, resp, scan,
                      bulk, dbUp>>

\* entry up to the update_one call: the fields are read and validated and
\* the clock is read
UpdateOrderStatusStart(t, data) ==
    LET order_id == Or(Field(data.order_id), Field(data.orderId))
        new_status == Field(data.status)
    IN /\ Free(t)
       /\ calls < MaxCalls
       /\ calls' = calls + 1
       /\ task' = [task EXCEPT ![t] =
            IF Falsy(order_id) \/ Falsy(new_status)
            THEN Finish(Begin("update_order_status", "start", data, <<>>),
                        ErrorMsg("Order ID and status are required"))
            ELSE Begin("update_order_status", "update", data,
                       [order_id |-> order_id, new_status |-> new_status,
                        current_time |-> now])]
       /\ UNCHANGED <<orders, users, notifs, shop, nextId, now, oplog,
                      wsOpen, flt, req, resp, scan,
                      bulk, dbUp>>

\* the update_one call and the answer that follows it
UpdateOrderStatusWrite(t) ==
    LET tk == task[t]
        upd == StatusUpdateDoc(tk.loc.new_status, tk.loc.current_time)
        id == tk.loc.order_id
        result == UpdateMatched(orders, id)
        wrote == [tk EXCEPT !.writes = @ \o <<WriteRec("orders", "id", id, upd)>>]
    IN /\ tk.op = "update_order_status"
       /\ tk.pc = "update"
       /\ dbUp
       /\ orders' = UpdatedById(orders, id, upd)
       /\ oplog' = IF result THEN LogPush(id, upd.push) ELSE oplog
       /\ task' = [task EXCEPT ![t] =
            IF result
            THEN Finish(wrote, [type |-> "order_updated", success |-> TRUE,
                                order_id |-> id])
            ELSE Finish(wrote, ErrorMsg("Failed to update order"))]
       /\ UNCHANGED <<users, notifs, shop, nextId, now, calls, wsOpen, flt,
                      req, resp, scan,
                      bulk, dbUp>>

----------------------------------------------------------------------------
(* assign_delivery_partner *)

\* a plausible slip: the assignment sets the partner and leaves the status
AssignUpdateDoc_StatusKept(partner_id, partner, admin_name, current_time) ==
    [set |-> [delivery_partner |-> partner_id,
              assigned_at |-> At(current_time),
              updated_at |-> At(current_time),
              status_message |-> <<"Order assigned to", partner.name>>],
     push |-> HistoryEntry("assigned", current_time, admin_name, partner_id,
                           partner.name,
                           <<"Order assigned to", partner.name, "by", admin_name>>)]

AssignUpdateDoc(partner_id, partner, admin_name, current_time) ==
    [set |-> [delivery_partner |-> partner_id,
              order_status |-> "assigned",
              assigned_at |-> At(current_time),
              updated_at |-> At(current_time),
              status_message |-> <<"Order assigned to", partner.name>>],
     push |-> HistoryEntry("assigned", current_time, admin_name, partner_id,
                           partner.name,
                           <<"Order assigned to", partner.name, "by", admin_name>>)]

\* a plausible slip: the partner looked up by id alone
ActivePartners_AnyUser(coll, partner_id) ==
    {u \in coll : u.id = partner_id}

\* the partner lookup: {"id": partner_id, "role": "delivery_partner",
\* "is_active": True}
ActivePartners(coll, partner_id) ==
    {u \in coll : u.id = partner_id /\ u.role = "delivery_partner" /\ u.is_active}

AssignStart(t, data) ==
    LET order_id == Field(data.order_id)
        partner_id == Field(data.delivery_partner_id)
        admin_name == IF data.admin_name.k = "absent" THEN "Admin"
                      ELSE data.admin_name.s
    IN /\ Free(t)
       /\ calls < MaxCalls
       /\ calls' = calls + 1
       /\ task' = [task EXCEPT ![t] =
            IF Falsy(order_id) \/ Falsy(partner_id)
            THEN Finish(Begin("assign_delivery_partner", "start", data, <<>>),
                        ErrorMsg("Order ID and delivery partner ID are required"))
            ELSE Begin("assign_delivery_partner", "find_order", data,
                       [order_id |-> order_id, partner_id |-> partner_id,
                        admin_name |-> admin_name])]
       /\ UNCHANGED <<orders, users, notifs, shop, nextId, now, oplog,
                      wsOpen, flt, req, resp, scan,
                      bulk, dbUp>>

\* a plausible slip: the order lookup's result is not checked
AssignFindOrder_Unchecked(t) ==
    LET tk == task[t]
    IN /\ tk.op = "assign_delivery_partner"
       /\ tk.pc = "find_order"
       /\ dbUp
       /\ task' = [task EXCEPT ![t] = [tk EXCEPT !.pc = "find_partner"]]
       /\ UNCHANGED <<orders, users, notifs, shop, nextId, now, calls, oplog,
                      wsOpen, flt, req, resp, scan,
                      bulk, dbUp>>

\* find_one("orders", {"id": order_id})
AssignFindOrder(t) ==
    LET tk == task[t]
    IN /\ tk.op = "assign_delivery_partner"
       /\ tk.pc = "find_order"
       /\ dbUp
       /\ task' = [task EXCEPT ![t] =
            IF \E o \in orders : o.id = tk.loc.order_id
            THEN [tk EXCEPT !.pc = "find_partner"]
            ELSE Finish(tk, ErrorMsg("Order not found"))]
       /\ UNCHANGED <<orders, users, notifs, shop, nextId, now, calls, oplog,
                      wsOpen, flt, req, resp, scan,
                      bulk, dbUp>>

\* find_one("users", ...) for the partner, then the clock is read
AssignFindPartner(t) ==
    LET tk == task[t]
        found == ActivePartners(users, tk.loc.partner_id)
    IN /\ tk.op = "assign_delivery_partner"
       /\ tk.pc = "find_partner"
       /\ dbUp
       /\ \/ /\ found = {}
             /\ task' = [task EXCEPT ![t] =
                  Finish(tk, ErrorMsg("Delivery partner not found or inactive"))]
          \/ \E partner \in found :
                task' = [task EXCEPT ![t] =
                  [tk EXCEPT !.pc = "update",
                             !.loc = [order_id |-> tk.loc.order_id,
                                      partner_id |-> tk.loc.partner_id,
                                      admin_name |-> tk.loc.admin_name,
                                      partner |-> partner,
                                      current_time |-> now]]]
       /\ UNCHANGED <<orders, users, notifs, shop, nextId, now, calls, oplog,
                      wsOpen, flt, req, resp, scan,
                      bulk, dbUp>>

\* the update_one call; on a match the order is read back (the copy is not
\* used) and order_assigned is sent
AssignWrite(t) ==
    LET tk == task[t]
        id == tk.loc.order_id
        upd == AssignUpdateDoc(tk.loc.partner_id, tk.loc.partner,
                               tk.loc.admin_name, tk.loc.current_time)
        result == UpdateMatched(orders, id)
        wrote == [tk EXCEPT !.writes = @ \o <<WriteRec("orders", "id", id, upd)>>]
    IN /\ tk.op = "assign_delivery_partner"
       /\ tk.pc = "update"
       /\ dbUp
       /\ orders' = UpdatedById(orders, id, upd)
       /\ oplog' = IF result THEN LogPush(id, upd.push) ELSE oplog
       /\ task' = [task EXCEPT ![t] =
            IF result
            THEN Finish(wrote,
                   [type |-> "order_assigned", success |-> TRUE,
                    data |-> [order_id |-> id,
                              delivery_partner_id |-> tk.loc.partner_id,
                              delivery_partner_name |-> tk.loc.partner.name,
                              status |-> "assigned",
                              timestamp |-> tk.loc.current_time]])
            ELSE Finish(wrote, ErrorMsg("Failed to assign delivery partner"))]
       /\ UNCHANGED <<users, notifs, shop, nextId, now, calls, wsOpen, flt,
                      req, resp, scan,
                      bulk, dbUp>>

----------------------------------------------------------------------------
(* The order-mutation service *)

PastEntry == HistoryEntry("pending", 0, None, None, None, <<"Order placed">>)

\* an order with one history entry behind it and an untouched bystander
Order1 ==
    [OrderDoc("ORD1", 0, "pending", 5, "u1", TRUE)
        EXCEPT !.status_change_history = <<PastEntry>>]
Order2 == OrderDoc("ORD2", 0, "pending", 10, "u2", TRUE)

OrderFixtures == {Order1, Order2}

Opt(S) == {Absent} \cup {Str(s) : s \in S}

UpdateOrderStatusInputs ==
    [order_id : Opt({"ORD1", "ORD9"}), orderId : Opt({"ORD1"}),
     status : Opt({"shipped"})]

AssignInputs ==
    [order_id : Opt({"ORD1", "ORD9"}),
     delivery_partner_id : Opt({"p1", "p2", "u1"}),
     admin_name : {Absent}]

InitOrders ==
    /\ orders = OrderFixtures
    /\ users = UserFixtures
    /\ notifs = {}
    /\ shop = {}
    /\ nextId = 0
    /\ now = 0
    /\ task = [t \in Tasks |-> Idle]
    /\ calls = 0
    /\ oplog = <<>>
    /\ wsOpen = TRUE
    /\ bulk = 0
    /\ dbUp = TRUE
    /\ flt = Absent
    /\ req = Absent
    /\ resp = NoResp
    /\ scan = NoScan

NextOrders ==
    \/ \E t \in Tasks :
         \/ \E data \in UpdateOrderStatusInputs : UpdateOrderStatusStart(t, data)
         \/ UpdateOrderStatusWrite(t)
         \/ \E data \in AssignInputs : AssignStart(t, data)
         \/ AssignFindOrder(t)
         \/ AssignFindPartner(t)
         \/ AssignWrite(t)
    \/ Tick

SpecOrders == InitOrders /\ [][NextOrders]_vars

----------------------------------------------------------------------------
(* Claims about update_order_status and assign_delivery_partner *)

OrderExists(id) == \E o \in orders : o.id = id

IsErrorAnswer(tk) == Len(tk.out) = 1 /\ tk.out[1].type = "error"

\* a user that may be assigned: a delivery partner that is active
IsActivePartner(id) ==
    \E u \in users : u.id = id /\ u.role = "delivery_partner" /\ u.is_active = TRUE

\* C3: assign_delivery_partner with an order ID that matches no order
\* answers with an error (Order not found, once both IDs are given) and
\* issues no write.
C3_UnknownOrderNoWrite ==
    \A t \in Tasks :
        LET tk == task[t]
        IN (tk.op = "assign_delivery_partner"
              /\ ~OrderExists(Field(tk.data.order_id))) =>
             /\ tk.writes = <<>>
             /\ tk.pc \in {"find_order", "done"}
             /\ tk.pc = "done" => IsErrorAnswer(tk)
             /\ (tk.pc = "done" /\ ~Falsy(Field(tk.data.order_id))
                   /\ ~Falsy(Field(tk.data.delivery_partner_id))) =>
                    tk.out[1].message = "Order not found"

\* an assignment to the unknown order ORD9 was refused while the partner
\* given is an assignable one
C3_Witness ==
    \E t \in Tasks :
        /\ task[t].op = "assign_delivery_partner"
        /\ task[t].pc = "done"
        /\ Field(task[t].data.order_id) = "ORD9"
        /\ IsActivePartner(Field(task[t].data.delivery_partner_id))
        /\ task[t].out = <<ErrorMsg("Order not found")>>

\* C4: assign_delivery_partner for an existing order with a partner ID
\* that names no active delivery partner answers with an error, and no
\* step of that invocation changes the order's delivery_partner,
\* order_status, assigned_at or status_change_history.
C4_InvalidPartnerLeavesOrder ==
    [][\A t \in Tasks :
         (/\ task'[t] # task[t]
          /\ task'[t].op = "assign_delivery_partner"
          /\ OrderExists(Field(task'[t].data.order_id))
          /\ ~IsActivePartner(Field(task'[t].data.delivery_partner_id))) =>
            /\ \A o \in orders : o.id = Field(task'[t].data.order_id) =>
                 \E n \in orders' :
                    /\ n.id = o.id
                    /\ n.delivery_partner = o.delivery_partner
                    /\ n.order_status = o.order_status
                    /\ n.assigned_at = o.assigned_at
                    /\ n.status_change_history = o.status_change_history
            /\ task'[t].writes = <<>>
            /\ task'[t].pc = "done" => IsErrorAnswer(task'[t])]_vars

\* an assignment of the customer u1 to the existing order ORD1 was refused
C4_Witness ==
    \E t \in Tasks :
        /\ task[t].op = "assign_delivery_partner"
        /\ task[t].pc = "done"
        /\ Field(task[t].data.order_id) = "ORD1"
        /\ Field(task[t].data.delivery_partner_id) = "u1"
        /\ task[t].out = <<ErrorMsg("Delivery partner not found or inactive")>>

InitialHistory(id) == (CHOOSE o \in OrderFixtures : o.id = id).status_change_history

\* C5: under every interleaving an order's status_change_history is the
\* history it had before, followed by exactly one entry per status update
\* or partner assignment that succeeded on it, in the order of the writes.
C5_HistoryAppendOnly ==
    \A o \in orders :
        o.status_change_history = InitialHistory(o.id) \o Logged(o.id)

\* two invocations overlapped on ORD1 and both succeeded: the entry of the
\* one that read the clock later was appended first
C5_Witness ==
    \E o \in orders :
        LET h == o.status_change_history
        IN /\ o.id = "ORD1"
           /\ Len(h) = 3
           /\ h[1] = PastEntry
           /\ {h[2].status, h[3].status} = {"assigned", "shipped"}
           /\ h[2].changed_at > h[3].changed_at

\* C6: update_order_status without an order ID (order_id / orderId) or
\* without a status answers with an error and writes nothing; with both
\* it issues exactly one update_one keyed by the external id, and that
\* single write sets order_status and appends the history entry.
C6_StatusUpdateSingleWrite ==
    [][\A t \in Tasks :
         (task'[t] # task[t] /\ task'[t].op = "update_order_status") =>
            LET tk == task'[t]
                id == Or(Field(tk.data.order_id), Field(tk.data.orderId))
                st == Field(tk.data.status)
            IN IF Falsy(id) \/ Falsy(st)
               THEN /\ tk.pc = "done"
                    /\ IsErrorAnswer(tk)
                    /\ tk.writes = <<>>
                    /\ orders' = orders
               ELSE IF tk.pc # "done"
               THEN tk.writes = <<>> /\ orders' = orders
               ELSE /\ Len(tk.writes) = 1
                    /\ tk.writes[1].coll = "orders"
                    /\ tk.writes[1].key = "id"
                    /\ tk.writes[1].id = id
                    /\ \A o \in orders :
                         IF o.id # id THEN o \in orders'
                         ELSE \E n \in orders' :
                                /\ n.id = id
                                /\ n.order_status = st
                                /\ Len(n.status_change_history)
                                     = Len(o.status_change_history) + 1
                                /\ SubSeq(n.status_change_history, 1,
                                          Len(o.status_change_history))
                                     = o.status_change_history
                                /\ n.status_change_history[
                                       Len(n.status_change_history)].status = st]_vars

\* a status update given as orderId was written to ORD1
C6_Witness ==
    \E t \in Tasks :
        /\ task[t].op = "update_order_status"
        /\ task[t].pc = "done"
        /\ task[t].data.order_id = Absent
        /\ Field(task[t].data.orderId) = "ORD1"
        /\ Len(task[t].writes) = 1
        /\ task[t].out[1].type = "order_updated"
        /\ \E o \in orders : o.id = "ORD1" /\ o.order_status = "shipped"

----------------------------------------------------------------------------
(* Notifications *)

\* ObjectId(text) raises InvalidId unless text is 24 hex digits
ObjectIdRaises(val) == val.k # "hex"

\* the _id values the store hands out to inserted documents, in order
IdPool == <<"66b1", "66b2", "66b3", "66b4", "66b5", "66b6">>

\* the IST rendering of an instant, stored beside the instant
IstString(t) == <<"IST", t>>

NotifDoc(oid, user_id, title, message, type, order_id, for, count, user_filter, created_at, created_at_ist, created_by, by_admin) ==
    [_id |-> oid, user_id |-> user_id, title |-> title, message |-> message,
     type |-> type, order_id |-> order_id, read |-> FALSE, read_at |-> NoTime,
     for |-> for, target_user_count |-> count, user_filter |-> user_filter,
     created_at |-> created_at, created_at_ist |-> created_at_ist,
     timezone |-> "Asia/Kolkata", created_by |-> created_by,
     created_by_admin |-> by_admin]

\* insert_one: the collection with the document added under a fresh _id
Inserted(coll, doc) == coll \cup {[doc EXCEPT !._id = IdPool[nextId + 1]]}

InsertRec(coll, doc) == [coll |-> coll, insert |-> doc]

AdminInfos == {[email |-> "admin@shop.in"], [email |-> None]}

----------------------------------------------------------------------------
(* send_notification_to_user *)

NotifyUserStart(t, data, admin_info) ==
    LET user_id == Field(data.user_id)
        title == Field(data.title)
        message == Field(data.message)
        begun == Begin("send_notification_to_user", "start",
                       [data EXCEPT !.admin_info = admin_info], <<>>)
    IN /\ Free(t)
       /\ calls < MaxCalls
       /\ calls' = calls + 1
       /\ task' = [task EXCEPT ![t] =
            IF Falsy(user_id) \/ Falsy(title) \/ Falsy(message)
            THEN Finish(begun, ErrorMsg("User ID, title, and message are required"))
            ELSE IF ObjectIdRaises(data.user_id)
            THEN AnswerFromExcept(begun, FailureMsg("Failed to send notification: ", "InvalidId"))
            ELSE [begun EXCEPT !.pc = "find_user"]]
       /\ UNCHANGED <<orders, users, notifs, shop, nextId, now, oplog,
                      wsOpen, flt, req, resp, scan,
                      bulk, dbUp>>

FoundUsers_Any(coll, user_id) == coll

\* find_one("users", {"_id": ObjectId(user_id)})
FoundUsers(coll, user_id) == {u \in coll : u._id = user_id}

\* the recipient check, then the clock is read
NotifyUserFindUser(t) ==
    LET tk == task[t]
        found == FoundUsers(users, Field(tk.data.user_id))
    IN /\ tk.op = "send_notification_to_user"
       /\ tk.pc = "find_user"
       /\ dbUp
       /\ \/ /\ found = {}
             /\ task' = [task EXCEPT ![t] = Finish(tk, ErrorMsg("User not found"))]
          \/ \E user \in found :
                task' = [task EXCEPT ![t] =
                    [tk EXCEPT !.pc = "insert",
                               !.loc = [user |-> user, current_time |-> now]]]
       /\ UNCHANGED <<orders, users, notifs, shop, nextId, now, calls, oplog,
                      wsOpen, flt, req, resp, scan,
                      bulk, dbUp>>

TargetedNotification(data, admin_info, current_time) ==
    NotifDoc(None, Field(data.user_id), Field(data.title), Field(data.message),
             IF data.type.k = "absent" THEN "system" ELSE data.type.s,
             Field(data.order_id), "specific_user", <<>>, Absent,
             current_time, IstString(current_time), admin_info.email, TRUE)

\* insert_one("notifications", ...) and the answer
NotifyUserInsert(t) ==
    LET tk == task[t]
        doc == TargetedNotification(tk.data, tk.data.admin_info,
                                    tk.loc.current_time)
    IN /\ tk.op = "send_notification_to_user"
       /\ tk.pc = "insert"
       /\ dbUp
       /\ notifs' = Inserted(notifs, doc)
       /\ nextId' = nextId + 1
       /\ task' = [task EXCEPT ![t] =
            Finish([tk EXCEPT !.writes = @ \o <<InsertRec("notifications", doc)>>],
                   [type |-> "notification_sent",
                    message |-> <<"Notification sent to", tk.loc.user.name>>])]
       /\ UNCHANGED <<orders, users, shop, now, calls, oplog, wsOpen, flt,
                      req, resp, scan,
                      bulk, dbUp>>

----------------------------------------------------------------------------
(* send_notification_to_all_users *)

\* user_filter.get(key, default), read for its truth value
FilterFlag(user_filter, key, default) ==
    IF user_filter.k = "absent" THEN default
    ELSE IF user_filter[key].k = "absent" THEN default
    ELSE user_filter[key].v

\* the users the audience query selects: customers, by default the active
\* ones, on request the verified ones
Audience(coll, user_filter) ==
    {u \in coll :
        /\ u.role = "customer"
        /\ FilterFlag(user_filter, "active_only", TRUE) => u.is_active
        /\ FilterFlag(user_filter, "verified_only", FALSE) => u.is_verified}

BroadcastStart(t, data, admin_info) ==
    LET title == Field(data.title)
        message == Field(data.message)
        begun == Begin("send_notification_to_all_users", "start",
                       [data EXCEPT !.admin_info = admin_info], <<>>)
    IN /\ Free(t)
       /\ calls < MaxCalls
       /\ calls' = calls + 1
       /\ task' = [task EXCEPT ![t] =
            IF Falsy(title) \/ Falsy(message)
            THEN Finish(begun, ErrorMsg("Title and message are required"))
            ELSE [begun EXCEPT !.pc = "count"]]
       /\ UNCHANGED <<orders, users, notifs, shop, nextId, now, oplog,
                      wsOpen, flt, req, resp, scan,
                      bulk, dbUp>>

\* count_documents("users", user_query), then the clock is read
BroadcastCount(t) ==
    LET tk == task[t]
        user_count == Cardinality(Audience(users, tk.data.user_filter))
    IN /\ tk.op = "send_notification_to_all_users"
       /\ tk.pc = "count"
       /\ dbUp
       /\ task' = [task EXCEPT ![t] =
            IF user_count = 0
            THEN Finish([tk EXCEPT !.loc = [user_count |-> user_count,
                                            current_time |-> now]],
                        ErrorMsg("No users found matching the criteria"))
            ELSE [tk EXCEPT !.pc = "insert",
                            !.loc = [user_count |-> user_count,
                                     current_time |-> now]]]
       /\ UNCHANGED <<orders, users, notifs, shop, nextId, now, calls, oplog,
                      wsOpen, flt, req, resp, scan,
                      bulk, dbUp>>

\* user_filter is stored as sent (absent stands for the default {}); the
\* document has no user_id and no order_id
BroadcastNotification(data, admin_info, user_count, current_time) ==
    NotifDoc(None, None, Field(data.title), Field(data.message),
             IF data.type.k = "absent" THEN "system" ELSE data.type.s,
             None, "all_users", <<user_count>>, data.user_filter,
             current_time, IstString(current_time), admin_info.email, TRUE)

BroadcastDocs_PerRecipient(data, admin_info, user_count, current_time) ==
    [i \in 1..user_count |->
        BroadcastNotification(data, admin_info, user_count, current_time)]

\* the documents one broadcast stores
BroadcastDocs(data, admin_info, user_count, current_time) ==
    <<BroadcastNotification(data, admin_info, user_count, current_time)>>

RECURSIVE InsertedAll(_, _, _)
InsertedAll(coll, docs, n) ==
    IF docs = <<>> THEN coll
    ELSE InsertedAll(coll \cup {[Head(docs) EXCEPT !._id = IdPool[n + 1]]},
                     Tail(docs), n + 1)

BroadcastInsert(t) ==
    LET tk == task[t]
        docs == BroadcastDocs(tk.data, tk.data.admin_info, tk.loc.user_count,
                              tk.loc.current_time)
    IN /\ tk.op = "send_notification_to_all_users"
       /\ tk.pc = "insert"
       /\ dbUp
       /\ notifs' = InsertedAll(notifs, docs, nextId)
       /\ nextId' = nextId + Len(docs)
       /\ task' = [task EXCEPT ![t] =
            Finish([tk EXCEPT !.writes =
                        @ \o [i \in 1..Len(docs) |->
                                 InsertRec("notifications", docs[i])]],
                   [type |-> "notification_broadcast_sent",
                    user_count |-> tk.loc.user_count])]
       /\ UNCHANGED <<orders, users, shop, now, calls, oplog, wsOpen, flt,
                      req, resp, scan,
                      bulk, dbUp>>

----------------------------------------------------------------------------
(* delete_notification *)

DeleteStart(t, data, admin_info) ==
    LET notification_id == Field(data.notification_id)
        begun == Begin("delete_notification", "start",
                       [data EXCEPT !.admin_info = admin_info], <<>>)
    IN /\ Free(t)
       /\ calls < MaxCalls
       /\ calls' = calls + 1
       /\ task' = [task EXCEPT ![t] =
            IF Falsy(notification_id)
            THEN Finish(begun, ErrorMsg("Notification ID is required"))
            ELSE IF ObjectIdRaises(data.notification_id)
            THEN AnswerFromExcept(begun, FailureMsg("Failed to delete notification: ", "InvalidId"))
            ELSE [begun EXCEPT !.pc = "find"]]
       /\ UNCHANGED <<orders, users, notifs, shop, nextId, now, oplog,
                      wsOpen, flt, req, resp, scan,
                      bulk, dbUp>>

DeletableNotifications_AnyCreator(coll, oid) == {n \in coll : n._id = oid}

\* the lookup before the delete: {"_id": ..., "created_by_admin": True}
DeletableNotifications(coll, oid) ==
    {n \in coll : n._id = oid /\ n.created_by_admin = TRUE}

DeleteFind(t) ==
    LET tk == task[t]
    IN /\ tk.op = "delete_notification"
       /\ tk.pc = "find"
       /\ dbUp
       /\ task' = [task EXCEPT ![t] =
            IF DeletableNotifications(notifs, Field(tk.data.notification_id)) = {}
            THEN Finish(tk, ErrorMsg("Notification not found or not authorized"))
            ELSE [tk EXCEPT !.pc = "delete"]]
       /\ UNCHANGED <<orders, users, notifs, shop, nextId, now, calls, oplog,
                      wsOpen, flt, req, resp, scan,
                      bulk, dbUp>>

DeleteRec(coll, oid) == [coll |-> coll, delete |-> oid]

\* delete_one("notifications", {"_id": ...}) and the answer
DeleteWrite(t) ==
    LET tk == task[t]
        oid == Field(tk.data.notification_id)
        result == \E n \in notifs : n._id = oid
        wrote == [tk EXCEPT !.writes = @ \o <<DeleteRec("notifications", oid)>>]
    IN /\ tk.op = "delete_notification"
       /\ tk.pc = "delete"
       /\ dbUp
       /\ notifs' = {n \in notifs : n._id # oid}
       /\ task' = [task EXCEPT ![t] =
            IF result
            THEN Finish(wrote, [type |-> "notification_deleted",
                                notification_id |-> oid])
            ELSE Finish(wrote, ErrorMsg("Failed to delete notification"))]
       /\ UNCHANGED <<orders, users, shop, nextId, now, calls, oplog, wsOpen,
                      flt, req, resp, scan,
                      bulk, dbUp>>

----------------------------------------------------------------------------
(* The notification service *)

\* a notification an admin sent to one user, and one the order service
\* generated (not created by an admin)
AdminNotif ==
    NotifDoc("66a1", "65a1", "Sale", "Hello", "system", None, "specific_user",
             <<>>, Absent, 0, IstString(0), "admin@shop.in", TRUE)
SystemNotif ==
    NotifDoc("66a2", "u1", "Order", "Shipped", "order", "ORD1", "specific_user",
             <<>>, Absent, 0, <<>>, "system", FALSE)

NotifFixtures == {AdminNotif, SystemNotif}

NotifyUserInputs ==
    [user_id : {Absent, Hex("65a1"), Hex("65ff"), Str("u1")},
     title : Opt({"Sale"}), message : Opt({"Hello"}), type : {Absent},
     order_id : {Absent}, admin_info : {Absent}]

UserFilter(active_only, verified_only) ==
    [k |-> "dict", active_only |-> active_only, verified_only |-> verified_only]

UserFilters ==
    {Absent, UserFilter(Bool(FALSE), Absent), UserFilter(Absent, Bool(TRUE))}

BroadcastInputs ==
    [title : Opt({"Sale"}), message : Opt({"Hello"}), type : {Absent},
     user_filter : UserFilters, admin_info : {Absent}]

DeleteInputs ==
    [notification_id : {Absent, Hex("66a1"), Hex("66a2"), Hex("66ff"), Str("17")},
     admin_info : {Absent}]

\* the users collection: with customers, or holding delivery partners only
UserDatabases ==
    {UserFixtures, {u \in UserFixtures : u.role = "delivery_partner"}}

InitNotif ==
    /\ orders = {}
    /\ users \in UserDatabases
    /\ notifs = NotifFixtures
    /\ shop = {}
    /\ nextId = 0
    /\ now = 0
    /\ task = [t \in Tasks |-> Idle]
    /\ calls = 0
    /\ oplog = <<>>
    /\ wsOpen = TRUE
    /\ bulk = 0
    /\ dbUp = TRUE
    /\ flt = Absent
    /\ req = Absent
    /\ resp = NoResp
    /\ scan = NoScan

NextNotif ==
    \/ \E t \in Tasks, admin_info \in AdminInfos :
         \/ \E data \in NotifyUserInputs : NotifyUserStart(t, data, admin_info)
         \/ \E data \in BroadcastInputs : BroadcastStart(t, data, admin_info)
         \/ \E data \in DeleteInputs : DeleteStart(t, data, admin_info)
    \/ \E t \in Tasks :
         \/ NotifyUserFindUser(t)
         \/ NotifyUserInsert(t)
         \/ BroadcastCount(t)
         \/ BroadcastInsert(t)
         \/ DeleteFind(t)
         \/ DeleteWrite(t)

SpecNotif == InitNotif /\ [][NextNotif]_vars


----------------------------------------------------------------------------
(* Claims about the notification service *)

\* the stored notifications that no admin created
NotAdminCreated(coll) == {n \in coll : n.created_by_admin # TRUE}

\* the invocation t has answered a delete_notification aimed at oid
DeletedAt(t, oid) ==
    /\ task[t].op = "delete_notification"
    /\ task[t].pc = "done"
    /\ task[t].data.notification_id = Hex(oid)

\* C7: delete_notification aimed at a notification whose created_by_admin
\* flag is not true answers with an error and the notification stays
\* stored, whatever admin_info the caller presents and whatever the other
\* invocation does in between.
C7_DeleteNonAdminFails ==
    /\ NotAdminCreated(NotifFixtures) \subseteq notifs
    /\ \A t \in Tasks : \A n \in NotAdminCreated(NotifFixtures) :
          DeletedAt(t, n._id) =>
              /\ IsErrorAnswer(task[t])
              /\ task[t].writes = <<>>

\* both callers, one with and one without an email, were refused the
\* delete of the system-generated notification while the admin-created one
\* was deleted
C7_Witness ==
    /\ DeletedAt("t1", SystemNotif._id)
    /\ task["t1"].data.admin_info.email = "admin@shop.in"
    /\ task["t1"].out[1].message = "Notification not found or not authorized"
    /\ DeletedAt("t2", AdminNotif._id)
    /\ task["t2"].out[1].type = "notification_deleted"
    /\ AdminNotif \notin notifs

BroadcastStep(t) ==
    /\ task'[t].op = "send_notification_to_all_users"
    /\ task'[t] # task[t]

\* C8: send_notification_to_all_users stores nothing and answers with an
\* error when the audience count is 0; when the count is positive it stores
\* exactly one document, with for = all_users and target_user_count equal
\* to the count, never one document per recipient.
C8_BroadcastStoresOneOrNone ==
    [][\A t \in Tasks : BroadcastStep(t) =>
          LET old == task[t]
              new == task'[t]
              n == Cardinality(Audience(users, new.data.user_filter))
          IN /\ (old.op = new.op /\ old.pc = "count") =>
                   /\ new.loc.user_count = n
                   /\ n = 0 => new.pc = "done" /\ IsErrorAnswer(new)
                   /\ n > 0 => new.pc = "insert"
             /\ IF old.op = new.op /\ old.pc = "insert"
                THEN /\ old.loc.user_count > 0
                     /\ \E d \in notifs' \ notifs :
                           /\ notifs' = notifs \cup {d}
                           /\ d.for = "all_users"
                           /\ d.target_user_count = <<old.loc.user_count>>
                     /\ new.out[1].type = "notification_broadcast_sent"
                ELSE notifs' = notifs
    ]_vars

\* a broadcast to two customers and a refused one are both answered
C8_Witness ==
    \E t \in Tasks :
        /\ task[t].op = "send_notification_to_all_users"
        /\ task[t].pc = "done"
        /\ task[t].out[1].type = "notification_broadcast_sent"
        /\ task[t].loc.user_count = 2
        /\ Cardinality({d \in notifs : d.for = "all_users"}) = 1

NotifyUserStep(t) ==
    /\ task'[t].op = "send_notification_to_user"
    /\ task'[t] # task[t]

AllSupplied(data) ==
    /\ Truthy(data.user_id)
    /\ Truthy(data.title)
    /\ Truthy(data.message)

\* the users collection holds the user the handler's lookup is keyed on
RecipientExists(data) ==
    /\ data.user_id.k \in {"hex", "str"}
    /\ \E u \in users : u._id = data.user_id.s

\* C9: send_notification_to_user stores a document only when user_id,
\* title and message are all supplied and the recipient exists; with a
\* field missing or no such recipient it answers with an error and leaves
\* the notifications collection as it was.
C9_TargetedNeedsFieldsAndRecipient ==
    [][\A t \in Tasks : NotifyUserStep(t) =>
          LET new == task'[t]
              eligible == AllSupplied(new.data) /\ RecipientExists(new.data)
          IN /\ notifs' # notifs => eligible
             /\ ~eligible =>
                   /\ notifs' = notifs
                   /\ new.writes = <<>>
                   /\ new.pc = "done" => IsErrorAnswer(new)
    ]_vars

\* one call was refused for an unknown recipient and another stored its
\* notification for an existing one
C9_Witness ==
    /\ task["t1"].op = "send_notification_to_user"
    /\ task["t1"].pc = "done"
    /\ task["t1"].data.user_id = Hex("65ff")
    /\ task["t1"].out[1].message = "User not found"
    /\ task["t2"].op = "send_notification_to_user"
    /\ task["t2"].pc = "done"
    /\ task["t2"].out[1].type = "notification_sent"
    /\ \E d \in notifs \ NotifFixtures : d.user_id = "65a1"


----------------------------------------------------------------------------
(* Shop status *)

NoneVal == [k |-> "none"]

\* data.get(key), kept with its type: None when the key is absent
DataGet(val) == IF val.k = "absent" THEN NoneVal ELSE val

ShopDoc(oid, is_open, reopen_time, reason, updated_at, updated_by) ==
    [_id |-> oid, is_open |-> is_open, reopen_time |-> reopen_time,
     reason |-> reason, updated_at |-> updated_at, updated_by |-> updated_by]

\* update_one(coll, {"_id": oid}, {"$set": status_doc})
SetById(coll, oid, status_doc) ==
    {IF d._id = oid THEN [status_doc EXCEPT !._id = oid] ELSE d : d \in coll}

SetRec(coll, oid, doc) == [coll |-> coll, update |-> oid, set |-> doc]

----------------------------------------------------------------------------
(* get_shop_status *)

DefaultStatus(current_time) ==
    ShopDoc(None, TRUE, NoneVal, NoneVal, current_time, "system")

StatusResponse(status_doc) ==
    [type |-> "shop_status", is_open |-> status_doc.is_open,
     reopen_time |-> status_doc.reopen_time, reason |-> status_doc.reason,
     updated_at |-> status_doc.updated_at, updated_by |-> status_doc.updated_by]

\* find_one("shop_status", {}): any stored document may be the one returned;
\* with none stored the default is prepared
GetShopStatusFind(t) ==
    LET begun == Begin("get_shop_status", "find", <<>>, <<>>)
    IN /\ Free(t)
       /\ calls < MaxCalls
       /\ dbUp
       /\ calls' = calls + 1
       /\ \/ /\ shop = {}
             /\ task' = [task EXCEPT ![t] =
                  [begun EXCEPT !.pc = "insert",
                                !.loc = [default_status |-> DefaultStatus(now)]]]
          \/ \E status_doc \in shop :
                task' = [task EXCEPT ![t] =
                    Finish(begun, StatusResponse(status_doc))]
       /\ UNCHANGED <<orders, users, notifs, shop, nextId, now, oplog,
                      wsOpen, flt, req, resp, scan,
                      bulk, dbUp>>

\* insert_one("shop_status", default_status) and the answer
GetShopStatusInsert(t) ==
    LET tk == task[t]
        doc == tk.loc.default_status
    IN /\ tk.op = "get_shop_status"
       /\ tk.pc = "insert"
       /\ dbUp
       /\ shop' = Inserted(shop, doc)
       /\ nextId' = nextId + 1
       /\ task' = [task EXCEPT ![t] =
            Finish([tk EXCEPT !.writes = @ \o <<InsertRec("shop_status", doc)>>],
                   StatusResponse(doc))]
       /\ UNCHANGED <<orders, users, notifs, now, calls, oplog, wsOpen, flt,
                      req, resp, scan,
                      bulk, dbUp>>

----------------------------------------------------------------------------
(* update_shop_status *)

\* str(e) of the TypeError that comparing an aware with a naive datetime raises
NaiveAwareError == "can't compare offset-naive and offset-aware datetimes"

\* the outcome of lines 66-80 for a truthy reopen_time: fromisoformat
\* raises ValueError for a string that is no ISO date; comparing an aware
\* datetime with utcnow(), which is naive, raises TypeError
ReopenCheck(reopen_time, utcnow) ==
    IF reopen_time.k # "iso" THEN "ValueError"
    ELSE LET reopen_datetime == FromIsoFormat(reopen_time)
         IN IF IsAware(reopen_datetime) THEN "TypeError"
            ELSE IF reopen_datetime.wall <= utcnow THEN "not_future"
            ELSE "ok"

UpdateShopStatusStart_WriteFirst(t, data, user_info) ==
    LET is_open == DataGet(data.is_open)
        reopen_time == DataGet(data.reopen_time)
        check == IF Truthy(reopen_time)
                 THEN ReopenCheck(reopen_time, now) ELSE "ok"
        status_doc == ShopDoc(None, Truthy(is_open), reopen_time,
                              DataGet(data.reason), now, user_info.email)
        begun == Begin("update_shop_status", "start",
                       [data EXCEPT !.user_info = user_info],
                       [checked_at |-> now, status_doc |-> status_doc,
                        existing |-> <<>>, cache |-> "none",
                        broadcast |-> "none"])
    IN /\ Free(t)
       /\ calls < MaxCalls
       /\ calls' = calls + 1
       /\ shop' = Inserted(shop, status_doc)
       /\ nextId' = nextId + 1
       /\ task' = [task EXCEPT ![t] =
            IF is_open.k = "none" \/ check # "ok"
            THEN Finish(begun, ErrorMsg("Reopen time must be in the future"))
            ELSE [begun EXCEPT !.pc = "answer"]]
       /\ UNCHANGED <<orders, users, notifs, now, oplog, wsOpen, flt, req,
                      resp, scan,
                      bulk, dbUp>>

UpdateShopStatusStart(t, data, user_info) ==
    LET is_open == DataGet(data.is_open)
        reopen_time == DataGet(data.reopen_time)
        reason == DataGet(data.reason)
        check == IF Truthy(reopen_time)
                 THEN ReopenCheck(reopen_time, now) ELSE "ok"
        status_doc == ShopDoc(None, Truthy(is_open), reopen_time, reason, now,
                              user_info.email)
        begun == Begin("update_shop_status", "start",
                       [data EXCEPT !.user_info = user_info],
                       [checked_at |-> now, status_doc |-> status_doc,
                        existing |-> <<>>, cache |-> "none",
                        broadcast |-> "none"])
    IN /\ Free(t)
       /\ calls < MaxCalls
       /\ calls' = calls + 1
       /\ task' = [task EXCEPT ![t] =
            IF is_open.k = "none"
            THEN AnswerFromExcept(begun, ErrorMsg("is_open field is required"))
            ELSE IF check = "not_future"
            THEN Finish(begun, ErrorMsg("Reopen time must be in the future"))
            ELSE IF check = "ValueError"
            THEN Finish(begun, ErrorMsg("Invalid datetime format for reopen_time"))
            ELSE IF check = "TypeError"
            THEN AnswerFromExcept(begun, FailureMsg("Failed to update shop status: ", NaiveAwareError))
            ELSE [begun EXCEPT !.pc = "find"]]
       /\ UNCHANGED <<orders, users, notifs, shop, nextId, now, oplog,
                      wsOpen, flt, req, resp, scan,
                      bulk, dbUp>>

\* existing = find_one("shop_status", {})
UpdateShopStatusFind(t) ==
    LET tk == task[t]
    IN /\ tk.op = "update_shop_status"
       /\ tk.pc = "find"
       /\ dbUp
       /\ \/ /\ shop = {}
             /\ task' = [task EXCEPT ![t] = [tk EXCEPT !.pc = "write"]]
          \/ \E existing \in shop :
                task' = [task EXCEPT ![t] =
                    [tk EXCEPT !.pc = "write", !.loc.existing = <<existing._id>>]]
       /\ UNCHANGED <<orders, users, notifs, shop, nextId, now, calls, oplog,
                      wsOpen, flt, req, resp, scan,
                      bulk, dbUp>>

\* update_one on the document found, or insert_one when none was found
UpdateShopStatusWrite(t) ==
    LET tk == task[t]
        doc == tk.loc.status_doc
    IN /\ tk.op = "update_shop_status"
       /\ tk.pc = "write"
       /\ dbUp
       /\ IF tk.loc.existing # <<>>
          THEN /\ shop' = SetById(shop, tk.loc.existing[1], doc)
               /\ nextId' = nextId
               /\ task' = [task EXCEPT ![t] =
                    [tk EXCEPT !.pc = "answer",
                               !.writes = @ \o <<SetRec("shop_status",
                                                        tk.loc.existing[1], doc)>>]]
          ELSE /\ shop' = Inserted(shop, doc)
               /\ nextId' = nextId + 1
               /\ task' = [task EXCEPT ![t] =
                    [tk EXCEPT !.pc = "answer",
                               !.writes = @ \o <<InsertRec("shop_status", doc)>>]]
       /\ UNCHANGED <<orders, users, notifs, now, calls, oplog, wsOpen, flt,
                      req, resp, scan,
                      bulk, dbUp>>

UpdatedResponse(status_doc) ==
    [type |-> "shop_status_updated", is_open |-> status_doc.is_open,
     reopen_time |-> status_doc.reopen_time, reason |-> status_doc.reason,
     updated_at |-> status_doc.updated_at, updated_by |-> status_doc.updated_by]

UpdateShopStatusAnswer_Surfacing(t) ==
    LET tk == task[t]
    IN /\ tk.op = "update_shop_status"
       /\ tk.pc = "answer"
       /\ \E cache \in {"invalidated", "failed"}, broadcast \in {"sent", "failed"} :
             task' = [task EXCEPT ![t] =
                 Finish([tk EXCEPT !.loc.cache = cache,
                                   !.loc.broadcast = broadcast],
                        IF cache = "failed"
                        THEN ErrorMsg("Failed to update shop status")
                        ELSE UpdatedResponse(tk.loc.status_doc))]
       /\ UNCHANGED <<orders, users, notifs, shop, nextId, now, calls, oplog,
                      wsOpen, flt, req, resp, scan,
                      bulk, dbUp>>

\* the cache invalidation, the answer and the broadcast; either side
\* effect may fail, which is logged and nothing more.  The broadcast
\* follows the answer: it is not reached when sending the answer raises
UpdateShopStatusAnswer(t) ==
    LET tk == task[t]
        broadcasts == IF wsOpen THEN {"sent", "failed"} ELSE {"none"}
    IN /\ tk.op = "update_shop_status"
       /\ tk.pc = "answer"
       /\ \E cache \in {"invalidated", "failed"}, broadcast \in broadcasts :
             task' = [task EXCEPT ![t] =
                 Finish([tk EXCEPT !.loc.cache = cache,
                                   !.loc.broadcast = broadcast],
                        UpdatedResponse(tk.loc.status_doc))]
       /\ UNCHANGED <<orders, users, notifs, shop, nextId, now, calls, oplog,
                      wsOpen, flt, req, resp, scan,
                      bulk, dbUp>>

----------------------------------------------------------------------------
(* The shop status service *)

IsOpenInputs == {Absent, Bool(TRUE), Bool(FALSE)}

\* the latest reading of the clock that a reopen_time names
ReopenWall == MaxTime

\* reopen_time as clients send it: absent, no date at all, or an ISO string
\* without zone, with 'Z', or with a UTC offset
ReopenTimeInputs ==
    {Absent, [k |-> "badstr"]} \cup
    {IsoStr(ReopenWall, zone) : zone \in {"", "Z", "+01:00"}}

\* the payloads a client sends; one of them lacks is_open
UpdateShopStatusInputs ==
    {data \in [is_open : IsOpenInputs, reopen_time : ReopenTimeInputs,
               reason : {Absent}, user_info : {Absent}] :
        data.is_open = Absent => data.reopen_time = Absent}

ShopAdmins == {[email |-> "admin@shop.in"]}

InitShop ==
    /\ orders = {}
    /\ users = {}
    /\ notifs = {}
    /\ shop = {}
    /\ nextId = 0
    /\ now = 0
    /\ task = [t \in Tasks |-> Idle]
    /\ calls = 0
    /\ oplog = <<>>
    /\ wsOpen = TRUE
    /\ bulk = 0
    /\ dbUp = TRUE
    /\ flt = Absent
    /\ req = Absent
    /\ resp = NoResp
    /\ scan = NoScan

NextShop ==
    \/ \E t \in Tasks :
         \/ GetShopStatusFind(t)
         \/ GetShopStatusInsert(t)
         \/ \E data \in UpdateShopStatusInputs, user_info \in ShopAdmins :
               UpdateShopStatusStart(t, data, user_info)
         \/ UpdateShopStatusFind(t)
         \/ UpdateShopStatusWrite(t)
         \/ UpdateShopStatusAnswer(t)
    \/ Tick

SpecShop == InitShop /\ [][NextShop]_vars

----------------------------------------------------------------------------
(* Claims about the shop status service *)

\* the invocation t is an answered update_shop_status with an is_open value
\* and a reopen_time that parses as an instant
ReopenUpdateDone(t) ==
    /\ task[t].op = "update_shop_status"
    /\ task[t].pc = "done"
    /\ task[t].data.is_open.k = "bool"
    /\ task[t].data.reopen_time.k = "iso"

ReopenInstant(t) == Instant(FromIsoFormat(task[t].data.reopen_time))

\* C10: update_shop_status with a valid is_open and a reopen_time that
\* parses as an instant is rejected when the instant is at or before the
\* current time and accepted (the status written, shop_status_updated sent)
\* when it is strictly later, whichever form the ISO string has: without
\* zone, with 'Z', or with a UTC offset.
C10_ReopenAcceptedIffFuture ==
    \A t \in Tasks : ReopenUpdateDone(t) =>
        IF ReopenInstant(t) <= task[t].loc.checked_at
        THEN IsErrorAnswer(task[t]) /\ task[t].writes = <<>>
        ELSE /\ task[t].out[1].type = "shop_status_updated"
             /\ Len(task[t].writes) = 1


\* the step in which invocation t of update_shop_status is refused by the
\* checks that precede its first database call
RejectedUpdateStep(t) ==
    /\ Free(t)
    /\ task'[t] # task[t]
    /\ task'[t].op = "update_shop_status"
    /\ task'[t].pc = "done"
    /\ IsErrorAnswer(task'[t])

\* C11: when update_shop_status answers with an error because is_open is
\* absent or because reopen_time does not parse or is not in the future,
\* it has written nothing: the shop_status collection is as it was before
\* the call and neither the cache invalidation nor the broadcast ran.
C11_RejectedUpdateWritesNothing ==
    [][\A t \in Tasks : RejectedUpdateStep(t) =>
          /\ shop' = shop
          /\ task'[t].writes = <<>>
          /\ task'[t].loc.cache = "none"
          /\ task'[t].loc.broadcast = "none"
    ]_vars

\* an update was refused for its reopen_time while a status document was
\* stored
C11_Witness ==
    /\ shop # {}
    /\ task["t1"].op = "update_shop_status"
    /\ task["t1"].pc = "done"
    /\ task["t1"].out[1].type = "error"
    /\ task["t1"].out[1].message = "Reopen time must be in the future"
    /\ task["t1"].writes = <<>>

\* C12: the shop_status collection holds at most one document in every
\* reachable state, starting from an empty collection, whatever the
\* interleaving of get_shop_status and update_shop_status invocations.
C12_ShopStatusSingleton == Cardinality(shop) <= 1

\* the step in which invocation t of update_shop_status, its write done,
\* runs the cache invalidation, answers and broadcasts
SideEffectStep(t) ==
    /\ task[t].op = "update_shop_status"
    /\ task[t].pc = "answer"
    /\ task'[t] # task[t]

\* C13: once the primary write of update_shop_status is done, a failing
\* cache invalidation or broadcast gives the caller no error and does not
\* undo the write: the caller gets shop_status_updated with the new values
\* and the stored documents stay as written.
C13_SideEffectFailuresSwallowed ==
    [][\A t \in Tasks : SideEffectStep(t) =>
          /\ task'[t].pc = "done"
          /\ task'[t].out = <<UpdatedResponse(task[t].loc.status_doc)>>
          /\ shop' = shop
    ]_vars

\* an update was answered after both side effects failed, and its values
\* are the stored ones
C13_Witness ==
    \E t \in Tasks :
        /\ task[t].op = "update_shop_status"
        /\ task[t].pc = "done"
        /\ task[t].loc.cache = "failed"
        /\ task[t].loc.broadcast = "failed"
        /\ task[t].out[1].type = "shop_status_updated"
        /\ \E d \in shop :
              /\ d.is_open = task[t].loc.status_doc.is_open
              /\ d.reopen_time = task[t].loc.status_doc.reopen_time
              /\ d.updated_at = task[t].loc.status_doc.updated_at


----------------------------------------------------------------------------
(* Claims about the filters of send_orders *)

\* one of the four range fields holds a value that cannot be converted
Malformed(filters) ==
    \/ filters.from_date.k \in {"badstr", "nonstr"}
    \/ filters.to_date.k \in {"badstr", "nonstr"}
    \/ filters.min_amount.k \in {"badstr", "list"}
    \/ filters.max_amount.k \in {"badstr", "list"}

\* the predicates of the supplied, well-formed filters (a bound of 0 is
\* left to C15)
WellFormedConds(filters) ==
    {Cond("order_status", "eq", filters.status.s) :
        x \in {y \in {filters.status} : y.k = "str" /\ y.s \notin {"", "all"}}}
    \cup {Cond("created_at", "gte", Instant(FromIsoFormat(x))) :
        x \in {y \in {filters.from_date} : y.k = "iso"}}
    \cup {Cond("created_at", "lte", Instant(FromIsoFormat(x))) :
        x \in {y \in {filters.to_date} : y.k = "iso"}}
    \cup {Cond("total_amount", "gte", x.v) :
        x \in {y \in {filters.min_amount} : y.k \in {"num", "numstr"} /\ y.v # 0}}
    \cup {Cond("total_amount", "lte", x.v) :
        x \in {y \in {filters.max_amount} : y.k \in {"num", "numstr"} /\ y.v # 0}}
    \cup {Cond("id", "regex", SearchTerm(x.s)) :
        x \in {y \in {filters.search} : y.k = "chars" /\ y.s # <<>>}}

\* C14: a value of from_date, to_date, min_amount or max_amount that cannot
\* be converted, whatever its type, costs the query only that field's
\* predicate: the predicates of all other supplied well-formed filters are
\* still in the query that build_orders_query returns.
C14_MalformedDropsOnlyItsField ==
    Malformed(flt) =>
        WellFormedConds(flt) \subseteq Range(build_orders_query(flt))

\* the order satisfies every supplied well-formed filter, a bound of 0
\* included
SatisfiesFilters(order, filters) ==
    /\ (filters.status.k = "str" /\ filters.status.s # "all") =>
           order.order_status = filters.status.s
    /\ filters.from_date.k = "iso" =>
           order.created_at >= Instant(FromIsoFormat(filters.from_date))
    /\ filters.to_date.k = "iso" =>
           order.created_at <= Instant(FromIsoFormat(filters.to_date))
    /\ filters.min_amount.k \in {"num", "numstr"} =>
           order.total_amount >= filters.min_amount.v
    /\ filters.max_amount.k \in {"num", "numstr"} =>
           order.total_amount <= filters.max_amount.v

\* C15: every order that send_orders returns satisfies all supplied
\* well-formed filters together: status (unless "all"), from_date, to_date,
\* min_amount and max_amount, a numeric bound of 0 included; only absent
\* filters impose nothing.
C15_ReturnedOrdersSatisfyFilters ==
    resp.type = "orders_data" =>
        \A i \in 1..Len(resp.orders) :
            SatisfiesFilters(OrderById(resp.orders[i].id), flt)


----------------------------------------------------------------------------
(* get_orders_for_download *)

DownloadCap == 10000

\* how many documents find_many(..., limit=limit) returns out of matched
\* ones: a limit of 0 is the store's "no limit", a negative limit counts as
\* its absolute value
FindManyCount(matched, limit) ==
    IF limit = 0 THEN matched
    ELSE Min(matched, IF limit < 0 THEN 0 - limit ELSE limit)

\* limit = min(filters.get("limit", 10000), 10000)
DownloadLimit(filters) == Min(Get(filters.limit, DownloadCap), DownloadCap)

get_orders_for_download(filters) ==
    IF ~wsOpen
    THEN \* connection not active: return without an answer
         resp' = NoResp
    ELSE IF filters.limit.k \notin {"absent", "num"} \/ ~dbUp
    THEN \* min() of a string and a number raises TypeError, find_many may
         \* raise: caught by the handler
         resp' = ErrorMsg("Failed to fetch orders for download")
    ELSE LET found == FindManyCount(bulk, DownloadLimit(filters))
         IN resp' = [type |-> "orders_download_data", total_count |-> found]

GetOrdersForDownload ==
    /\ get_orders_for_download(flt)
    /\ UNCHANGED <<orders, users, notifs, shop, nextId, now, task, calls,
                   oplog, wsOpen, flt, req, scan, bulk, dbUp>>

\* the database becomes unreachable
DbDown ==
    /\ dbUp
    /\ dbUp' = FALSE
    /\ UNCHANGED <<orders, users, notifs, shop, nextId, now, task, calls,
                   oplog, wsOpen, flt, req, resp, scan, bulk>>

\* limit values a client may send with a download request
DownloadLimits ==
    {Absent, [k |-> "badstr"]} \cup
    {Num(l) : l \in {0 - 2 * DownloadCap, -1, 0, 1, DownloadCap, 2 * DownloadCap}}

DownloadInputs ==
    [status : {Absent}, from_date : {Absent}, to_date : {Absent},
     min_amount : {Absent}, max_amount : {Absent}, search : {Absent},
     limit : DownloadLimits, page : {Absent}]

\* sizes of the orders collection, below and above the cap
BulkSizes == {0, 1, DownloadCap, DownloadCap + 1, 2 * DownloadCap}

InitDownload ==
    /\ orders = {}
    /\ users = {}
    /\ notifs = {}
    /\ shop = {}
    /\ nextId = 0
    /\ now = 0
    /\ task = NoTasks
    /\ calls = 0
    /\ oplog = <<>>
    /\ wsOpen = TRUE
    /\ dbUp = TRUE
    /\ bulk \in BulkSizes
    /\ flt \in DownloadInputs
    /\ req = Absent
    /\ resp = NoResp
    /\ scan = NoScan

NextDownload == GetOrdersForDownload \/ Disconnect \/ DbDown

SpecDownload == InitDownload /\ [][NextDownload]_vars

\* C16: whatever limit the caller supplies (above 10000, zero, negative, or
\* none), get_orders_for_download returns at most 10,000 orders.
C16_DownloadCapped ==
    resp.type = "orders_download_data" => resp.total_count <= DownloadCap


----------------------------------------------------------------------------
(* get_all_notifications *)

DefaultListLimit == 50

\* utc_to_ist_string: the fallback for documents without created_at_ist
UtcToIstString(t) == <<"IST-iso", t>>

\* query = {"created_by_admin": True} plus the type / for filters
ListQuery(filters) ==
    <<Cond("created_by_admin", "eq", TRUE)>>
    \o (IF Truthy(filters.type) THEN <<Cond("type", "eq", filters.type.s)>> ELSE <<>>)
    \o (IF Truthy(filters.for) THEN <<Cond("for", "eq", filters.for.s)>> ELSE <<>>)

\* find_many("notifications", query, sort, skip, limit)
ListFind(t, filters) ==
    LET begun == Begin("get_all_notifications", "count", filters, <<>>)
    IN /\ Free(t)
       /\ calls < MaxCalls
       /\ dbUp
       /\ calls' = calls + 1
       /\ \E notifications \in find_many_sorted(notifs, ListQuery(filters), 0,
                                                DefaultListLimit) :
             task' = [task EXCEPT ![t] =
                 [begun EXCEPT !.loc = [notifications |-> notifications]]]
       /\ UNCHANGED <<orders, users, notifs, shop, nextId, now, oplog,
                      wsOpen, flt, req, resp, scan, bulk, dbUp>>

\* total_count = count_documents("notifications", query)
ListCount(t) ==
    LET tk == task[t]
    IN /\ tk.op = "get_all_notifications"
       /\ tk.pc = "count"
       /\ dbUp
       /\ task' = [task EXCEPT ![t] =
            [tk EXCEPT !.pc = "resolve",
                       !.loc = [notifications |-> tk.loc.notifications,
                                total_count |->
                                    count_documents(notifs, ListQuery(tk.data))]]]
       /\ UNCHANGED <<orders, users, notifs, shop, nextId, now, calls, oplog,
                      wsOpen, flt, req, resp, scan, bulk, dbUp>>

\* find_one("users", {"id": user_id})
RecipientLookup(coll, user_id) == {u \in coll : u.id = user_id}

\* user_name of a list entry (external ids are unique among users, so the
\* lookup finds at most one user)
RecipientName(coll, notif) ==
    IF notif.for = "specific_user"
    THEN IF RecipientLookup(coll, notif.user_id) = {}
         THEN "User Deleted"
         ELSE (CHOOSE u \in RecipientLookup(coll, notif.user_id) : TRUE).name
    ELSE "All Users"

\* notif_data of one notification
NotifData(notif, coll) ==
    [id |-> notif._id, title |-> notif.title, message |-> notif.message,
     type |-> notif.type, for |-> notif.for,
     created_at |-> IF notif.created_at_ist # <<>> THEN notif.created_at_ist
                    ELSE UtcToIstString(notif.created_at),
     created_by |-> notif.created_by, order_id |-> notif.order_id,
     user_name |-> RecipientName(coll, notif),
     user_id |-> IF notif.for = "specific_user" THEN notif.user_id ELSE None,
     recipient_count |-> IF notif.for = "specific_user" THEN <<>>
                         ELSE <<Cardinality(Audience(coll, Absent))>>]

\* the per-notification lookups in users, and the answer
ListResolve(t) ==
    LET tk == task[t]
    IN /\ tk.op = "get_all_notifications"
       /\ tk.pc = "resolve"
       /\ dbUp
       /\ task' = [task EXCEPT ![t] =
            Finish(tk, [type |-> "notifications_data",
                        notifications |->
                            [i \in 1..Len(tk.loc.notifications) |->
                                NotifData(tk.loc.notifications[i], users)],
                        total |-> tk.loc.total_count])]
       /\ UNCHANGED <<orders, users, notifs, shop, nextId, now, calls, oplog,
                      wsOpen, flt, req, resp, scan, bulk, dbUp>>


----------------------------------------------------------------------------
(* get_notification_stats *)

BaseQuery == <<Cond("created_by_admin", "eq", TRUE)>>

\* total_notifications = count_documents("notifications", base_query)
StatsCountTotal(t) ==
    LET begun == Begin("get_notification_stats", "broadcast", <<>>, <<>>)
    IN /\ Free(t)
       /\ calls < MaxCalls
       /\ dbUp
       /\ calls' = calls + 1
       /\ task' = [task EXCEPT ![t] =
            [begun EXCEPT !.loc = [total |-> count_documents(notifs, BaseQuery)]]]
       /\ UNCHANGED <<orders, users, notifs, shop, nextId, now, oplog,
                      wsOpen, flt, req, resp, scan, bulk, dbUp>>

\* the invocation after one more awaited call, its result kept under key
Counted(tk, next, key, value) ==
    [tk EXCEPT !.pc = next,
               !.loc = [k \in DOMAIN tk.loc \cup {key} |->
                           IF k = key THEN value ELSE tk.loc[k]]]

\* aggregate: $match base_query, $group by type with a count
TypeBreakdown(coll) ==
    {[type |-> ty, count |-> count_documents(coll, BaseQuery \o <<Cond("type", "eq", ty)>>)] :
        ty \in {n.type : n \in Matching(coll, BaseQuery)}}

\* the queries of the narrower counts
ForQuery(for) == BaseQuery \o <<Cond("for", "eq", for)>>
ReadQuery(read) == ForQuery("specific_user") \o <<Cond("read", "eq", read)>>

StatsCountBroadcast(t) ==
    LET tk == task[t]
    IN /\ tk.op = "get_notification_stats"
       /\ tk.pc = "broadcast"
       /\ dbUp
       /\ task' = [task EXCEPT ![t] =
            Counted(tk, "single_user", "broadcast",
                    count_documents(notifs, ForQuery("all_users")))]
       /\ UNCHANGED <<orders, users, notifs, shop, nextId, now, calls, oplog,
                      wsOpen, flt, req, resp, scan, bulk, dbUp>>

StatsCountSingleUser(t) ==
    LET tk == task[t]
    IN /\ tk.op = "get_notification_stats"
       /\ tk.pc = "single_user"
       /\ dbUp
       /\ task' = [task EXCEPT ![t] =
            Counted(tk, "by_type", "single_user",
                    count_documents(notifs, ForQuery("specific_user")))]
       /\ UNCHANGED <<orders, users, notifs, shop, nextId, now, calls, oplog,
                      wsOpen, flt, req, resp, scan, bulk, dbUp>>

StatsAggregate(t) ==
    LET tk == task[t]
    IN /\ tk.op = "get_notification_stats"
       /\ tk.pc = "by_type"
       /\ dbUp
       /\ task' = [task EXCEPT ![t] =
            Counted(tk, "unread", "by_type",
                    TypeBreakdown(notifs))]
       /\ UNCHANGED <<orders, users, notifs, shop, nextId, now, calls, oplog,
                      wsOpen, flt, req, resp, scan, bulk, dbUp>>

StatsCountUnread(t) ==
    LET tk == task[t]
    IN /\ tk.op = "get_notification_stats"
       /\ tk.pc = "unread"
       /\ dbUp
       /\ task' = [task EXCEPT ![t] =
            Counted(tk, "read", "unread",
                    count_documents(notifs, ReadQuery(FALSE)))]
       /\ UNCHANGED <<orders, users, notifs, shop, nextId, now, calls, oplog,
                      wsOpen, flt, req, resp, scan, bulk, dbUp>>

\* the last count, and the answer
StatsCountRead(t) ==
    LET tk == task[t]
        read == count_documents(notifs, ReadQuery(TRUE))
    IN /\ tk.op = "get_notification_stats"
       /\ tk.pc = "read"
       /\ dbUp
       /\ task' = [task EXCEPT ![t] =
            Finish(tk, [type |-> "notification_stats",
                        stats |-> [total |-> tk.loc.total,
                                   broadcast |-> tk.loc.broadcast,
                                   single_user |-> tk.loc.single_user,
                                   unread |-> tk.loc.unread,
                                   read |-> read,
                                   by_type |-> tk.loc.by_type]])]
       /\ UNCHANGED <<orders, users, notifs, shop, nextId, now, calls, oplog,
                      wsOpen, flt, req, resp, scan, bulk, dbUp>>

----------------------------------------------------------------------------
(* Listing and statistics beside sends and deletes *)

ListFilters ==
    [type : {Absent}, for : {Absent, Str("specific_user")}]

\* what the admin sends while lists and statistics are fetched
ReadSideSends ==
    [user_id : {Hex("65a1")}, title : {Str("Sale")}, message : {Str("Hello")},
     type : {Absent}, order_id : {Absent}, admin_info : {Absent}]

ReadSideDeletes == [notification_id : {Hex("66a1")}, admin_info : {Absent}]

ReadSideAdmins == {[email |-> "admin@shop.in"]}

InitNotifRead ==
    /\ orders = {}
    /\ users = UserFixtures
    /\ notifs = NotifFixtures
    /\ shop = {}
    /\ nextId = 0
    /\ now = 0
    /\ task = [t \in Tasks |-> Idle]
    /\ calls = 0
    /\ oplog = <<>>
    /\ wsOpen = TRUE
    /\ bulk = 0
    /\ dbUp = TRUE
    /\ flt = Absent
    /\ req = Absent
    /\ resp = NoResp
    /\ scan = NoScan

NextNotifRead ==
    \/ \E t \in Tasks, admin_info \in ReadSideAdmins :
         \/ \E data \in ReadSideSends : NotifyUserStart(t, data, admin_info)
         \/ \E data \in ReadSideDeletes : DeleteStart(t, data, admin_info)
    \/ \E t \in Tasks :
         \/ NotifyUserFindUser(t)
         \/ NotifyUserInsert(t)
         \/ DeleteFind(t)
         \/ DeleteWrite(t)
         \/ \E filters \in ListFilters : ListFind(t, filters)
         \/ ListCount(t)
         \/ ListResolve(t)
         \/ StatsCountTotal(t)
         \/ StatsCountBroadcast(t)
         \/ StatsCountSingleUser(t)
         \/ StatsAggregate(t)
         \/ StatsCountUnread(t)
         \/ StatsCountRead(t)
    \/ Tick

SpecNotifRead == InitNotifRead /\ [][NextNotifRead]_vars

----------------------------------------------------------------------------
(* Claims about listing and statistics *)

\* the list entries of the answered get_all_notifications invocations that
\* show a targeted notification created after the start
ListedNew ==
    {e \in UNION {Range(task[t].out[1].notifications) :
                    t \in {x \in Tasks : /\ task[x].op = "get_all_notifications"
                                         /\ task[x].pc = "done"}} :
        /\ e.for = "specific_user"
        /\ e.id \notin {n._id : n \in NotifFixtures}}

\* C17: lookups join on the application-level id: the recipient check of
\* send_notification_to_user and the recipient lookup of
\* get_all_notifications resolve a stored user_id to the same user, so a
\* targeted notification created for an existing user is listed with that
\* user's name, not as "User Deleted".
C17_ListedWithRecipientName ==
    \A e \in ListedNew :
        /\ FoundUsers(users, e.user_id) = RecipientLookup(users, e.user_id)
        /\ \E u \in FoundUsers(users, e.user_id) : e.user_name = u.name

\* C18: in every notification_stats answer total = broadcast + single_user
\* and single_user = read + unread, also when notifications are created or
\* deleted while the statistics are being counted.
C18_StatsPartition ==
    \A t \in Tasks :
        (task[t].op = "get_notification_stats" /\ task[t].pc = "done") =>
            LET stats == task[t].out[1].stats
            IN /\ stats.total = stats.broadcast + stats.single_user
               /\ stats.single_user = stats.read + stats.unread

----------------------------------------------------------------------------
(* Failures: the database is down, the caller's connection is closed *)

\* str(e) of the exception a database call raises while the database is
\* unreachable: the driver's text, which names the server it tried
DatabaseError == "ServerSelectionTimeoutError: db-host:27017: connection refused"

\* the "except Exception as e" blocks of orders.py: the message sent
OrdersExceptMsg(op, e) ==
    CASE op = "update_order_status" ->
             FailureMsg("Failed to update order status: ", e)
      [] op = "assign_delivery_partner" ->
             FailureMsg("Failed to assign delivery partner: ", e)

\* the "except Exception as e" blocks of notifications.py: the message sent
NotificationsExceptMsg(op, e) ==
    CASE op = "get_all_notifications" ->
             FailureMsg("Failed to fetch notifications: ", e)
      [] op = "send_notification_to_user" ->
             FailureMsg("Failed to send notification: ", e)
      [] op = "send_notification_to_all_users" ->
             FailureMsg("Failed to send broadcast notification: ", e)
      [] op = "delete_notification" ->
             FailureMsg("Failed to delete notification: ", e)
      [] op = "get_notification_stats" ->
             FailureMsg("Failed to fetch notification stats: ", e)

\* the "except Exception as e" blocks of shop_status.py: the message sent
ShopExceptMsg(op, e) ==
    CASE op = "get_shop_status" ->
             FailureMsg("Failed to get shop status: ", e)
      [] op = "update_shop_status" ->
             FailureMsg("Failed to update shop status: ", e)

ExceptMsg(op, e) ==
    IF op \in {"update_order_status", "assign_delivery_partner"}
    THEN OrdersExceptMsg(op, e)
    ELSE IF op \in {"get_shop_status", "update_shop_status"}
    THEN ShopExceptMsg(op, e)
    ELSE NotificationsExceptMsg(op, e)

\* where an invocation stands right before an awaited database call
DbPcs ==
    {"update", "find_order", "find_partner", "find_user", "insert", "count",
     "find", "delete", "write", "resolve", "broadcast", "single_user",
     "by_type", "unread", "read"}

\* handlers whose first statement after the try is a database call
EntryDbOps == {"get_shop_status", "get_all_notifications", "get_notification_stats"}

\* the database call an invocation waits for raises; the handler's
\* "except Exception" block logs and sends its message
DbCallRaises(t) ==
    LET tk == task[t]
    IN /\ ~dbUp
       /\ tk.pc \in DbPcs
       /\ task' = [task EXCEPT ![t] =
            AnswerFromExcept(tk, ExceptMsg(tk.op, DatabaseError))]
       /\ UNCHANGED <<orders, users, notifs, shop, nextId, now, calls, oplog,
                      wsOpen, flt, req, resp, scan, bulk, dbUp>>

\* a handler that starts with a database call is called while the
\* database is down
DbCallRaisesAtEntry(t, op) ==
    /\ ~dbUp
    /\ Free(t)
    /\ calls < MaxCalls
    /\ calls' = calls + 1
    /\ task' = [task EXCEPT ![t] =
         AnswerFromExcept(Begin(op, "start", <<>>, <<>>),
                          ExceptMsg(op, DatabaseError))]
    /\ UNCHANGED <<orders, users, notifs, shop, nextId, now, oplog,
                   wsOpen, flt, req, resp, scan, bulk, dbUp>>

\* the requests sent while the database or the connection may fail
FailStatusInputs ==
    [order_id : {Str("ORD1")}, orderId : {Absent}, status : Opt({"shipped"})]

FailAssignInputs ==
    [order_id : {Str("ORD1"), Str("ORD9")}, delivery_partner_id : {Str("p1")},
     admin_name : {Absent}]

FailShopInputs ==
    [is_open : {Bool(FALSE)},
     reopen_time : {Absent, IsoStr(ReopenWall, "Z")},
     reason : {Absent}, user_info : {Absent}]

FailListFilters == [type : {Absent}, for : {Absent}]

InitFail ==
    /\ orders = OrderFixtures
    /\ users = UserFixtures
    /\ notifs = NotifFixtures
    /\ shop = {}
    /\ nextId = 0
    /\ now = 0
    /\ task = [t \in Tasks |-> Idle]
    /\ calls = 0
    /\ oplog = <<>>
    /\ wsOpen = TRUE
    /\ bulk = 0
    /\ dbUp = TRUE
    /\ flt = Absent
    /\ req = Absent
    /\ resp = NoResp
    /\ scan = NoScan

NextFail ==
    \/ \E t \in Tasks :
         \/ \E data \in FailStatusInputs : UpdateOrderStatusStart(t, data)
         \/ UpdateOrderStatusWrite(t)
         \/ \E data \in FailAssignInputs : AssignStart(t, data)
         \/ AssignFindOrder(t)
         \/ AssignFindPartner(t)
         \/ AssignWrite(t)
         \/ \E filters \in FailListFilters : ListFind(t, filters)
         \/ ListCount(t)
         \/ ListResolve(t)
         \/ \E data \in FailShopInputs, user_info \in ShopAdmins :
               UpdateShopStatusStart(t, data, user_info)
         \/ UpdateShopStatusFind(t)
         \/ UpdateShopStatusWrite(t)
         \/ UpdateShopStatusAnswer(t)
         \/ DbCallRaises(t)
         \/ \E op \in EntryDbOps : DbCallRaisesAtEntry(t, op)
    \/ Disconnect
    \/ DbDown

SpecFail == InitFail /\ [][NextFail]_vars

----------------------------------------------------------------------------
(* Claims about failures *)

\* C19: the error message a handler sends after an unexpected exception
\* (the database unavailable, an exception of the interpreter) is a generic
\* failure message that carries no text of the exception, for the handlers
\* of the order, notification and shop-status services.
C19_GenericFailureMessage ==
    \A t \in Tasks : \A i \in 1..Len(task[t].out) :
        task[t].out[i].type = "error" => "detail" \notin DOMAIN task[t].out[i]

\* C20: when the caller's connection is closed, every handler returns
\* normally: no exception of a failed send leaves the handler, and after a
\* send attempt has failed the handler attempts no other.
C20_SendFailureContained ==
    \A t \in Tasks : task[t].pc # "raised" /\ task[t].failed <= 1

----------------------------------------------------------------------------
(* Orders and users changed by other actors while the admin handlers run *)

\* the user-management subsystem deactivates a user
UserDeactivated(id) ==
    /\ \E u \in users : u.id = id /\ u.is_active
    /\ users' = {IF u.id = id THEN [u EXCEPT !.is_active = FALSE] ELSE u :
                    u \in users}
    /\ UNCHANGED <<orders, notifs, shop, nextId, now, task, calls, oplog,
                   wsOpen, flt, req, resp, scan, bulk, dbUp>>

\* the user-management subsystem removes a user record
UserRemoved(id) ==
    /\ \E u \in users : u.id = id
    /\ users' = {u \in users : u.id # id}
    /\ UNCHANGED <<orders, notifs, shop, nextId, now, task, calls, oplog,
                   wsOpen, flt, req, resp, scan, bulk, dbUp>>

\* the order-placing side removes an order
OrderRemoved(id) ==
    /\ \E o \in orders : o.id = id
    /\ orders' = {o \in orders : o.id # id}
    /\ UNCHANGED <<users, notifs, shop, nextId, now, task, calls, oplog,
                   wsOpen, flt, req, resp, scan, bulk, dbUp>>

\* two active delivery partners beside the users of the fixtures
RaceUsers ==
    UserFixtures \cup
        {UserDoc("65a5", "p3", "Esha", "delivery_partner", TRUE, TRUE)}

RaceStatusInputs ==
    [order_id : {Str("ORD1")}, orderId : {Absent}, status : {Str("shipped")}]

RaceAssignInputs ==
    [order_id : {Str("ORD1")}, delivery_partner_id : {Str("p1"), Str("p3")},
     admin_name : {Absent}]

InitRace ==
    /\ orders = OrderFixtures
    /\ users = RaceUsers
    /\ notifs = {}
    /\ shop = {}
    /\ nextId = 0
    /\ now = 0
    /\ task = [t \in Tasks |-> Idle]
    /\ calls = 0
    /\ oplog = <<>>
    /\ wsOpen = TRUE
    /\ bulk = 0
    /\ dbUp = TRUE
    /\ flt = Absent
    /\ req = Absent
    /\ resp = NoResp
    /\ scan = NoScan

NextRace ==
    \/ \E t \in Tasks :
         \/ \E data \in RaceStatusInputs : UpdateOrderStatusStart(t, data)
         \/ UpdateOrderStatusWrite(t)
         \/ \E data \in RaceAssignInputs : AssignStart(t, data)
         \/ AssignFindOrder(t)
         \/ AssignFindPartner(t)
         \/ AssignWrite(t)
    \/ UserDeactivated("p1")
    \/ UserRemoved("p3")
    \/ OrderRemoved("ORD1")
    \/ Tick

SpecRace == InitRace /\ [][NextRace]_vars

----------------------------------------------------------------------------
(* Claims about concurrent order mutations *)

\* the positions of a history that record a partner
PartnerEntries(h) == {i \in 1..Len(h) : h[i].partner_id # None}

Last(S) == CHOOSE i \in S : \A j \in S : j <= i

\* C21: after any sequence or interleaving of successful update_order_status
\* and assign_delivery_partner operations on an order, its order_status is
\* the status of the last entry of its status_change_history, and its
\* delivery_partner is the partner_id of the last history entry that
\* records a partner.
C21_LastWriteWins ==
    \A o \in orders :
        LET h == o.status_change_history
        IN Logged(o.id) # <<>> =>
             /\ o.order_status = h[Len(h)].status
             /\ PartnerEntries(h) # {} =>
                  o.delivery_partner = h[Last(PartnerEntries(h))].partner_id

\* two assignments to different partners overlapped on ORD1 and both
\* succeeded; the order carries the partner of the entry appended last
C21_Witness ==
    \E o \in orders :
        LET h == o.status_change_history
        IN /\ o.id = "ORD1"
           /\ Len(h) = 3
           /\ h[2].partner_id # None
           /\ h[3].partner_id # None
           /\ h[2].partner_id # h[3].partner_id
           /\ o.delivery_partner = h[3].partner_id
           /\ \A t \in Tasks : task[t].pc = "done" /\ task[t].out[1].type = "order_assigned"

\* C22: assign_delivery_partner writes a partner onto an order only if, at
\* the moment of the write, the order exists and the partner is a user with
\* role delivery_partner that is active, also when another actor changed
\* or removed the order or the user after the handler's checks.
C22_AssignChecksAtWrite ==
    [][\A t \in Tasks :
         (/\ task[t].op = "assign_delivery_partner"
          /\ task[t].pc = "update"
          /\ task'[t] # task[t]
          /\ orders' # orders) =>
            /\ OrderExists(task[t].loc.order_id)
            /\ IsActivePartner(task[t].loc.partner_id)]_vars

----------------------------------------------------------------------------
(* Claims about reading the shop status after an update *)

\* the values an update stores and a get reports
StatusValues(d) ==
    [is_open |-> d.is_open, reopen_time |-> d.reopen_time, reason |-> d.reason]

\* what a get_shop_status called in this state may report: find_one
\* returns one of the stored documents
GetReports == {StatusValues(StatusResponse(status_doc)) : status_doc \in shop}

\* every invocation made so far is still in its slot
AllVisible == calls = Cardinality({t \in Tasks : task[t].op # "idle"})

\* t is the one update_shop_status made so far, and it has succeeded
OnlyUpdateSucceeded(t) ==
    /\ AllVisible
    /\ task[t].op = "update_shop_status"
    /\ task[t].pc = "done"
    /\ task[t].out = <<UpdatedResponse(task[t].loc.status_doc)>>
    /\ \A s \in Tasks \ {t} :
         task[s].op # "update_shop_status" /\ task[s].pc \in {"idle", "done"}

\* C23: after update_shop_status has succeeded with (is_open, reopen_time,
\* reason), a get_shop_status that follows with no update in between
\* reports exactly those values, also when the document was created by
\* get_shop_status or when a get ran concurrently with the update.
C23_GetReportsLastUpdate ==
    \A t \in Tasks :
        OnlyUpdateSucceeded(t) =>
            GetReports = {StatusValues(task[t].loc.status_doc)}

====
